---- MODULE Spec2Model ----
(***************************************************************************)
(* Model of the batch upload pipeline of the artform uploader:             *)
(*   ArtformUploader.upload_artforms / _process_batch / _update_stats      *)
(*   (src/uploader.py), FirestoreManager.upload_document (src/database.py) *)
(*   and ArtformData.is_valid / to_firestore_dict (src/models.py).         *)
(* The orchestrating thread is modelled statement by statement (pc); the   *)
(* worker threads of the per-batch ThreadPoolExecutor run one task each,   *)
(* step by step (existence check, merge write).                            *)
(* The entry points are modelled too: main of src/artform/main.py on top   *)
(* of the pipeline, and upload_genai_collections / main of                 *)
(* src/jsonupload/main.py as a state machine of its own (SpecJson).        *)
(* GenAIProductUploader of src/jsonupload/uploader.py is SpecProducts, and  *)
(* the derived rates of UploadStats are SpecRates.                         *)
(* SpecDict uploads records in every state of their touched set, SpecBatch *)
(* is FirestoreManager.batch_upload, SpecLive the pipeline under fair      *)
(* scheduling, and SpecEquiv the two JSON uploads run on the same folder.  *)
(***************************************************************************)
EXTENDS Integers, Sequences, FiniteSets, TLC

\* ---------------------------------------------------------------- bounds
MaxRows == 3
MaxBatchSize == 2
MaxWorkers == 2
MaxFaults == 5
MaxSlugLen == 2
MaxFiles == 2
MaxProducts == 2
MaxFileProducts == 1
MaxCount == 2
MaxElapsed == 2
MaxLiveRows == 2

\* ------------------------------------------------------ program constants
\* stop_after_attempt(5) of the tenacity decorator
StopAfterAttempt == 5

\* ProcessingConfig.batch_delay of the JSON uploader, in tenths of a second
\* (the default, 0.1 s)
batch_delay == 1

\* retry_if_exception_type((TooManyRequests, ServiceUnavailable, GoogleCloudError))
RetryTypes == {"TooManyRequests", "ServiceUnavailable", "GoogleCloudError"}

\* ------------------------------------------------------------ data model
\* Attributes of ArtformData kept in the model (slug is the document key).
FieldNames == {"slug", "name", "artist_count"}

\* ArtformData(): every attribute at its dataclass default.
Defaults == [slug |-> <<>>, name |-> "", artist_count |-> 0]

\* ArtformData._field_types: a class attribute, so hasattr() is true for its
\* name, but it is no dataclass field
ClassAttrs == {"_field_types"}

\* field_name.startswith('_')
IsPrivate(f) == f \in ClassAttrs \cup {"_fields_to_update"}

\* ArtformData.set_field_value: when the object has the attribute, setattr
\* and mark the name as touched.  (Setting the class attribute's name on the
\* instance changes no dataclass field.)
set_field_value(rec, f, v) ==
    IF f \in FieldNames
    THEN [vals |-> [rec.vals EXCEPT ![f] = v], touched |-> rec.touched \cup {f}]
    ELSE IF f \in ClassAttrs
    THEN [vals |-> rec.vals, touched |-> rec.touched \cup {f}]
    ELSE rec

NewArtform == [vals |-> Defaults, touched |-> {}]

\* the whitespace characters of the model: space and tab
Whitespace == {" ", "\t"}

\* str.strip(): drop the leading and the trailing whitespace of a slug
\* (a slug is a sequence of characters).
RECURSIVE LStrip(_)
LStrip(s) == IF s # <<>> /\ Head(s) \in Whitespace THEN LStrip(Tail(s)) ELSE s

RECURSIVE RStrip(_)
RStrip(s) ==
    IF s # <<>> /\ s[Len(s)] \in Whitespace
    THEN RStrip(SubSeq(s, 1, Len(s) - 1))
    ELSE s

Strip(s) == RStrip(LStrip(s))

\* variant: only the first character of the slug is looked at
is_valid_first_char(rec) ==
    rec.vals.slug # <<>> /\ Head(rec.vals.slug) \notin Whitespace

\* variant: the slug is not trimmed
is_valid_untrimmed(rec) == rec.vals.slug # <<>>

\* ArtformData.is_valid: bool(self.slug and self.slug.strip())
is_valid(rec) == rec.vals.slug # <<>> /\ Strip(rec.vals.slug) # <<>>

\* dataclasses.asdict(self): every dataclass field, the private touched set
\* included
asdict(rec) ==
    [f \in FieldNames \cup {"_fields_to_update"} |->
        IF f = "_fields_to_update" THEN rec.touched ELSE rec.vals[f]]

\* variant: without the fallback to all fields
to_firestore_dict_no_fallback(rec) ==
    [f \in {g \in rec.touched : ~IsPrivate(g)} |-> rec.vals[f]]

\* ArtformData.to_firestore_dict: the touched fields whose name does not
\* start with an underscore; asdict(self) when nothing is touched.
to_firestore_dict(rec) ==
    IF rec.touched = {}
    THEN asdict(rec)
    ELSE [f \in {g \in rec.touched : ~IsPrivate(g)} |-> rec.vals[f]]

\* Records the CSV parser builds (_create_artform_from_row): every supplied
\* column goes through set_field_value, the slug included.
RecAName  == set_field_value(set_field_value(NewArtform, "slug", <<"a">>), "name", "X")
RecACount == set_field_value(set_field_value(NewArtform, "slug", <<"a">>), "artist_count", 5)
\* A record whose slug is blank, for which is_valid() is false.  The parser
\* itself yields None for such a row; upload_artforms guards against the
\* record all the same.
RecBlank  == set_field_value(NewArtform, "slug", <<" ">>)

\* What parse_csv yields for one row: (row_num, artform) or (row_num, None).
Row(rec) == [is_none |-> FALSE, artform |-> rec]
NoneRow  == [is_none |-> TRUE, artform |-> NewArtform]

Entries == {NoneRow, Row(RecBlank), Row(RecAName), Row(RecACount)}

Sources == UNION {[1..n -> Entries] : n \in 0..MaxRows}

\* ProcessResult of a task that has not produced one yet
NoResult == [doc_id |-> <<>>, success |-> FALSE, error_message |-> "",
             row_number |-> 0, is_new_document |-> FALSE, fields_updated |-> {}]

\* UploadStats()
ZeroStats == [success |-> 0, errors |-> 0, skipped |-> 0, total_processed |-> 0,
              new_documents |-> 0, updated_documents |-> 0]

VARIABLES
    source,         \* the rows parse_csv yields, in order
    batch_size,     \* config.processing.batch_size
    max_workers,    \* config.processing.max_workers
    pc,             \* position of the orchestrating thread
    pos,            \* index of the next row of the source
    current_batch,  \* upload_artforms: current_batch
    full,           \* TRUE when _process_batch was called from inside the loop
    batch_no,       \* number of _process_batch calls so far
    store_faults,   \* history: number of errors raised to upload tasks so far
    cur,            \* the future the as_completed loop is handling
    tasks,          \* the live upload tasks (futures), in submission order
    stats,          \* self.stats
    stats_lock,     \* holder of self.stats_lock ("none" when free)
    store,          \* Firestore collection: slug -> document
    clock,          \* server time, source of SERVER_TIMESTAMP
    dispatched,     \* history: the batches handed to _process_batch
    delays,         \* history: batch numbers followed by time.sleep
    summary         \* history: the statistics _log_final_stats reported

\* The state of the JSON entry point (src/jsonupload/main.py), which runs
\* on its own, without the uploader classes.
VARIABLES
    json_files,       \* the *_top_products.json files of json_folder, in order
    json_pc,          \* position of upload_genai_collections / main
    file_pos,         \* index of the file the for loop is at
    prod_pos,         \* index of the product the inner loop is at
    uploaded,         \* upload_genai_collections: uploaded
    files_processed,  \* upload_genai_collections: files_processed
    total_products,   \* upload_genai_collections: total_products
    errors,           \* upload_genai_collections: errors
    json_store        \* product documents written: <<slug, name>> -> document

json_vars == <<json_files, json_pc, file_pos, prod_pos, uploaded,
               files_processed, total_products, errors, json_store>>

upload_vars == <<source, batch_size, max_workers, pc, pos, current_batch, full,
                 batch_no, store_faults, cur, tasks, stats, stats_lock, store,
                 clock, dispatched, delays, summary>>

\* The local clock and what has been read of the derived rates of UploadStats.
VARIABLES
    start_time,     \* UploadStats.start_time
    time_now,       \* time.time()
    rates           \* history: the last values read of the two rate properties

rate_vars == <<start_time, time_now, rates>>

\* FirestoreManager.batch_upload, which no uploader calls: a run of it alone.
VARIABLES
    artforms,       \* batch_upload: the argument, a list of records
    commit_raises,  \* whether the store fails batch.commit()
    batch_pc,       \* position inside batch_upload
    staged,         \* the writes of the WriteBatch: <<key, doc_data>>
    results         \* batch_upload: results

batch_vars == <<artforms, commit_raises, batch_pc, staged, results>>

vars == <<upload_vars, json_vars, rate_vars, batch_vars>>

\* a value of a rate property: a float (kept as the exact ratio num/den), the
\* exception a division by zero raises, or nothing read yet
Float(a, b) == [kind |-> "float", num |-> a, den |-> b]

ZeroDivisionError == [kind |-> "ZeroDivisionError", num |-> 0, den |-> 0]

Unread == [duration |-> 0, value |-> [kind |-> "unread", num |-> 0, den |-> 0]]

\* the rate properties have not been read and the clock is not observed
RatesIdle ==
    /\ start_time = 0
    /\ time_now = 0
    /\ rates = [success_rate |-> Unread, rate_per_second |-> Unread]

\* the JSON entry point is not running
JsonIdle ==
    /\ json_files = <<>>
    /\ json_pc = "idle"
    /\ file_pos = 0
    /\ prod_pos = 0
    /\ uploaded = 0
    /\ files_processed = 0
    /\ total_products = 0
    /\ errors = 0
    /\ json_store = <<>>

\* batch_upload is not running
BatchIdle ==
    /\ artforms = <<>>
    /\ commit_raises = FALSE
    /\ batch_pc = "idle"
    /\ staged = <<>>
    /\ results = <<>>

config == <<source, batch_size, max_workers>>

Init ==
    /\ source \in Sources
    /\ batch_size \in 1..MaxBatchSize
    /\ max_workers \in 1..MaxWorkers
    /\ pc = "iter"
    /\ pos = 1
    /\ current_batch = <<>>
    /\ full = FALSE
    /\ batch_no = 0
    /\ store_faults = 0
    /\ cur = 0
    /\ tasks = <<>>
    /\ stats = ZeroStats
    /\ stats_lock = "none"
    /\ store = <<>>
    /\ clock = 1
    /\ dispatched = <<>>
    /\ delays = <<>>
    /\ summary = <<>>
    /\ JsonIdle
    /\ RatesIdle
    /\ BatchIdle

\* enumerate(reader, start=2): the row number of the i-th data row
RowNum(i) == i + 1

\* ------------------------------------------------- the store and its faults
\* What the store does to one upload task: raise `exc` in each of the next
\* `k` attempts (on the existence check or on the write), then succeed.
\* ValueError stands for the errors the decorator does not name.
\* "Unexpected" is an error raised outside the protection of
\* upload_document's try block, so that the task raises instead of returning.
NoFault == [exc |-> "none", k |-> 0]

StoreErrors == RetryTypes \cup {"ValueError"}

Plans ==
    {NoFault}
    \cup {[exc |-> e, k |-> n] : e \in StoreErrors, n \in 1..MaxFaults}
    \cup {[exc |-> "Unexpected", k |-> 1]}

\* The faults the store shows during a whole run: none, one transient error,
\* one unexpected error.
BatchPlans ==
    {NoFault,
     [exc |-> "ServiceUnavailable", k |-> 1],
     [exc |-> "Unexpected", k |-> 1]}

\* variant: doc_ref.set(doc_data) without merge
MergeOverwrite(doc, data) == data

\* doc_ref.set(doc_data, merge=True): the fields of doc_data overwrite, every
\* other stored field stays.
Merge(doc, data) ==
    [f \in DOMAIN doc \cup DOMAIN data |->
        IF f \in DOMAIN data THEN data[f] ELSE doc[f]]

Exists(key) == key \in DOMAIN store

\* variant: created_at is stamped on every upload (as batch_upload does)
DocDataAlwaysCreated(rec, is_new, now) ==
    LET base == to_firestore_dict(rec)
    IN  [f \in DOMAIN base \cup {"updated_at", "created_at"} |->
            IF f \in {"updated_at", "created_at"} THEN now ELSE base[f]]

\* doc_data of upload_document: the touched fields, updated_at, and created_at
\* when the snapshot said the document did not exist.
DocData(rec, is_new, now) ==
    LET base    == to_firestore_dict(rec)
        stamped == [f \in DOMAIN base \cup {"updated_at"} |->
                      IF f = "updated_at" THEN now ELSE base[f]]
    IN  IF is_new
        THEN [f \in DOMAIN stamped \cup {"created_at"} |->
                IF f = "created_at" THEN now ELSE stamped[f]]
        ELSE stamped

SuccessResult(rec, is_new) ==
    [doc_id |-> rec.vals.slug, success |-> TRUE, error_message |-> "",
     row_number |-> 0, is_new_document |-> is_new, fields_updated |-> {}]

\* the except branch of upload_document: a failed ProcessResult
FailedResult(rec, exc) ==
    [doc_id |-> rec.vals.slug, success |-> FALSE, error_message |-> exc,
     row_number |-> 0, is_new_document |-> FALSE, fields_updated |-> {}]

\* variant: `except ValueError` for `except Exception`
CaughtValueErrorOnly(exc) == exc = "ValueError"

\* `except Exception` of upload_document: the errors the try block absorbs
Caught(exc) == exc # "Unexpected"

\* tenacity: retry_if_exception_type(...) and stop_after_attempt(5), applied
\* to an attempt that ended by raising exc
ShouldRetry(exc, attempts) == exc \in RetryTypes /\ attempts < StopAfterAttempt

\* The end of one attempt of the decorated upload_document.  An attempt that
\* returned ends the call; one that raised is retried or re-raised.
AttemptReturns(tk, result) ==
    [tk EXCEPT !.st = "done", !.result = result]

AttemptRaises(tk, exc) ==
    IF ShouldRetry(exc, tk.attempts)
    THEN [tk EXCEPT !.st = "get", !.attempts = @ + 1]
    ELSE [tk EXCEPT !.st = "done", !.raised = exc]

\* variant: the except branch starts another attempt while attempts are left
RaisedInTryRetries(tk, exc) ==
    IF tk.attempts < StopAfterAttempt
    THEN [tk EXCEPT !.st = "get", !.attempts = @ + 1]
    ELSE AttemptReturns(tk, FailedResult(tk.artform, exc))

\* an error raised inside the try block of upload_document
RaisedInTry(tk, exc) ==
    IF Caught(exc)
    THEN AttemptReturns(tk, FailedResult(tk.artform, exc))
    ELSE AttemptRaises(tk, exc)

\* Does the store still have a failure in stock for this task?
Strikes(tk) == tk.faults > 0


\* ------------------------------------------------------- helper predicates
TaskIds == 1..Len(tasks)

TasksOf(b) == {t \in TaskIds : tasks[t].batch = b}

\* a worker thread is executing upload_document for this task
Running(t) == tasks[t].st \in {"get", "set"}

InFlight(b) == {t \in TasksOf(b) : Running(t)}

\* the future has a result or an exception
Finished(t) == tasks[t].st \in {"done", "folded"}

\* variant: the pool is one thread too large
WorkerAvailableOffByOne(b) == Cardinality(InFlight(b)) <= max_workers

\* ThreadPoolExecutor(max_workers=...): a queued work item is picked up only
\* by an idle worker thread, and the pool has at most max_workers threads.
WorkerAvailable(b) == Cardinality(InFlight(b)) < max_workers

\* The executor's work queue is first in, first out: the next item a worker
\* takes is the oldest one still queued.
HeadOfQueue(t) ==
    \A u \in TasksOf(tasks[t].batch) : u < t => tasks[u].st # "queued"

\* variant: `>` for `>=`
BatchFullStrict(batch) == Len(batch) > batch_size

\* len(current_batch) >= self.config.processing.batch_size
BatchFull(batch) == Len(batch) >= batch_size

\* as_completed(future_to_data) is exhausted: every future of the batch has
\* been yielded and handled by the loop body.
AllDrained(b) == \A t \in TasksOf(b) : tasks[t].st = "folded"

\* ThreadPoolExecutor.__exit__: shutdown(wait=True) joins the worker threads
ExecutorShutdown(b) == \A t \in TasksOf(b) : Finished(t)

\* variant: the loop stops waiting at the first handled future and the
\* executor is shut down without waiting (shutdown(wait=False))
BatchCompleteFirst(b) == \E t \in TasksOf(b) : tasks[t].st = "folded"

\* the orchestrating thread may leave the with block of _process_batch
BatchComplete(b) == AllDrained(b) /\ ExecutorShutdown(b)

\* ------------------------------------------- upload_artforms: the row loop
\* variant: the row is put at the front of current_batch
NextRowPrepends ==
    /\ pc = "iter"
    /\ pos <= Len(source)
    /\ pos' = pos + 1
    /\ LET e == source[pos] IN
         IF e.is_none \/ ~is_valid(e.artform)
         THEN /\ pc' = "skip_lock"
              /\ UNCHANGED <<current_batch, full>>
         ELSE LET nb == <<<<RowNum(pos), e.artform>>>> \o current_batch IN
              /\ current_batch' = nb
              /\ IF BatchFull(nb)
                 THEN pc' = "batch" /\ full' = TRUE
                 ELSE pc' = "iter" /\ UNCHANGED full
    /\ UNCHANGED <<config, json_vars, rate_vars, batch_vars, batch_no, store_faults, cur, tasks, stats, stats_lock,
                   store, clock, dispatched, delays, summary>>

\* One iteration of `for row_num, artform in self.csv_parser.parse_csv()`
\* up to the first statement that touches the statistics or a batch.
NextRow ==
    /\ pc = "iter"
    /\ pos <= Len(source)
    /\ pos' = pos + 1
    /\ LET e == source[pos] IN
         IF e.is_none \/ ~is_valid(e.artform)
         THEN /\ pc' = "skip_lock"
              /\ UNCHANGED <<current_batch, full>>
         ELSE LET nb == Append(current_batch, <<RowNum(pos), e.artform>>) IN
              /\ current_batch' = nb
              /\ IF BatchFull(nb)
                 THEN pc' = "batch" /\ full' = TRUE
                 ELSE pc' = "iter" /\ UNCHANGED full
    /\ UNCHANGED <<config, json_vars, rate_vars, batch_vars, batch_no, store_faults, cur, tasks, stats, stats_lock,
                   store, clock, dispatched, delays, summary>>

\* `with self.stats_lock:` of a skipped row
SkipAcquire ==
    /\ pc = "skip_lock"
    /\ stats_lock = "none"
    /\ stats_lock' = "main"
    /\ pc' = "skip_inc"
    /\ UNCHANGED <<config, json_vars, rate_vars, batch_vars, pos, current_batch, full, batch_no, store_faults, cur,
                   tasks, stats, store, clock, dispatched, delays, summary>>

\* self.stats.skipped += 1, the end of the with block, `continue`
SkipCount ==
    /\ pc = "skip_inc"
    /\ stats' = [stats EXCEPT !.skipped = @ + 1]
    /\ stats_lock' = "none"
    /\ pc' = "iter"
    /\ UNCHANGED <<config, json_vars, rate_vars, batch_vars, pos, current_batch, full, batch_no, store_faults, cur,
                   tasks, store, clock, dispatched, delays, summary>>

\* variant: the final statistics are logged before the remaining records
\* are processed
SourceExhaustedLogsFirst ==
    /\ pc = "iter"
    /\ pos > Len(source)
    /\ summary' = <<stats>>
    /\ IF current_batch # <<>>
       THEN pc' = "batch" /\ full' = FALSE
       ELSE pc' = "final" /\ UNCHANGED full
    /\ UNCHANGED <<config, json_vars, rate_vars, batch_vars, pos, current_batch, batch_no, store_faults,
                   cur, tasks, stats, stats_lock, store, clock, dispatched, delays>>

\* The source is exhausted: `if current_batch:` after the loop.
SourceExhausted ==
    /\ pc = "iter"
    /\ pos > Len(source)
    /\ IF current_batch # <<>>
       THEN pc' = "batch" /\ full' = FALSE
       ELSE pc' = "final" /\ UNCHANGED full
    /\ UNCHANGED <<config, json_vars, rate_vars, batch_vars, pos, current_batch, batch_no, store_faults, cur, tasks,
                   stats, stats_lock, store, clock, dispatched, delays, summary>>

\* variant: the final statistics are logged before the error is re-raised
SourceRaisesWithSummary ==
    /\ pc = "iter"
    /\ pc' = "raised"
    /\ summary' = <<stats>>
    /\ UNCHANGED <<config, json_vars, rate_vars, batch_vars, pos, current_batch, full, batch_no, store_faults, cur,
                   tasks, stats, stats_lock, store, clock, dispatched, delays>>

\* variant: the records still in current_batch are counted as errors
\* before the error is re-raised
SourceRaisesCountsBuffered ==
    /\ pc = "iter"
    /\ pc' = "raised"
    /\ stats' = [stats EXCEPT !.errors = @ + Len(current_batch),
                               !.total_processed = @ + Len(current_batch)]
    /\ UNCHANGED <<config, json_vars, rate_vars, batch_vars, pos, current_batch, full, batch_no, store_faults, cur,
                   tasks, stats_lock, store, clock, dispatched, delays, summary>>

\* parse_csv raises while the file is opened or read; upload_artforms logs
\* and re-raises.
SourceRaises ==
    /\ pc = "iter"
    /\ pc' = "raised"
    /\ UNCHANGED <<config, json_vars, rate_vars, batch_vars, pos, current_batch, full, batch_no, store_faults, cur,
                   tasks, stats, stats_lock, store, clock, dispatched, delays,
                   summary>>

\* ------------------------------------------------------------ _process_batch
\* variant: the statistics are started afresh for every batch
EnterBatchResetsStats ==
    /\ pc = "batch"
    /\ batch_no' = batch_no + 1
    /\ dispatched' = Append(dispatched, current_batch)
    /\ stats' = ZeroStats
    /\ pc' = "submit"
    /\ UNCHANGED <<config, json_vars, rate_vars, batch_vars, pos, current_batch, full, store_faults,
                   cur, tasks, stats_lock, store, clock, delays, summary>>

\* Entering _process_batch(current_batch): the executor is created.
EnterBatch ==
    /\ pc = "batch"
    /\ batch_no' = batch_no + 1
    /\ dispatched' = Append(dispatched, current_batch)
    /\ pc' = "submit"
    /\ UNCHANGED <<config, json_vars, rate_vars, batch_vars, pos, current_batch, full, store_faults, cur, tasks, stats,
                   stats_lock, store, clock, delays, summary>>

\* the work item executor.submit creates for one element of batch_data
NewTask(b, item, plan) ==
    [batch |-> b, row |-> item[1], artform |-> item[2], st |-> "queued",
     attempts |-> 0, plan |-> plan, faults |-> plan.k, is_new |-> FALSE,
     result |-> NoResult, raised |-> ""]

\* The dict comprehension of _process_batch: executor.submit(
\* self.db_manager.upload_document, artform) for every element of batch_data,
\* in order.  The store's behaviour towards each task is chosen here.
Submit ==
    /\ pc = "submit"
    /\ \E plans \in [1..Len(current_batch) -> BatchPlans] :
         tasks' = tasks \o [i \in 1..Len(current_batch) |->
                              NewTask(batch_no, current_batch[i], plans[i])]
    /\ pc' = "drain"
    /\ UNCHANGED <<config, json_vars, rate_vars, batch_vars, pos, current_batch, full, batch_no, store_faults, cur, stats,
                   stats_lock, store, clock, dispatched, delays, summary>>

\* variant: future.result() outside a try block: a raised task aborts the
\* batch and the run
TakeCompletedNoCatch(t) ==
    /\ pc = "drain"
    /\ t \in TasksOf(batch_no)
    /\ tasks[t].st = "done"
    /\ cur' = t
    /\ IF tasks[t].raised # ""
       THEN pc' = "raised" /\ UNCHANGED tasks
       ELSE /\ pc' = "upd_lock"
            /\ tasks' = [tasks EXCEPT ![t].result.row_number = tasks[t].row]
    /\ UNCHANGED <<config, json_vars, rate_vars, batch_vars, pos, current_batch, full, batch_no, store_faults, stats,
                   stats_lock, store, clock, dispatched, delays, summary>>

\* variant: the loop is handed only the futures that returned a result
TakeCompletedReturnedOnly(t) ==
    /\ pc = "drain"
    /\ t \in TasksOf(batch_no)
    /\ tasks[t].st = "done"
    /\ tasks[t].raised = ""
    /\ cur' = t
    /\ pc' = "upd_lock"
    /\ tasks' = [tasks EXCEPT ![t].result.row_number = tasks[t].row]
    /\ UNCHANGED <<config, json_vars, rate_vars, batch_vars, pos, current_batch, full, batch_no, store_faults, stats,
                   stats_lock, store, clock, dispatched, delays, summary>>

\* as_completed yields a finished future; future.result() returns the
\* ProcessResult (and the loop sets result.row_number) or raises.
TakeCompleted(t) ==
    /\ pc = "drain"
    /\ t \in TasksOf(batch_no)
    /\ tasks[t].st = "done"
    /\ cur' = t
    /\ IF tasks[t].raised # ""
       THEN pc' = "exc_lock" /\ UNCHANGED tasks
       ELSE /\ pc' = "upd_lock"
            /\ tasks' = [tasks EXCEPT ![t].result.row_number = tasks[t].row]
    /\ UNCHANGED <<config, json_vars, rate_vars, batch_vars, pos, current_batch, full, batch_no, store_faults, stats,
                   stats_lock, store, clock, dispatched, delays, summary>>

\* A future the as_completed loop has handled, once future_to_data is gone:
\* what stays is the record that the row was handled in that batch.
Forget(tk) ==
    IF tk.st = "folded"
    THEN [NewTask(tk.batch, <<tk.row, tk.artform>>, NoFault) EXCEPT !.st = "folded"]
    ELSE tk

\* variant: `current_batch = []` is missing after the call
ExitBatchKeepsBatch ==
    /\ pc = "drain"
    /\ BatchComplete(batch_no)
    /\ tasks' = [t \in TaskIds |-> Forget(tasks[t])]
    /\ cur' = 0
    /\ pc' = IF full THEN "sleep" ELSE "final"
    /\ UNCHANGED <<config, json_vars, rate_vars, batch_vars, pos, current_batch, full, batch_no, store_faults, stats,
                   stats_lock, store, clock, dispatched, delays, summary>>

\* The as_completed loop is over and the with block shuts the executor down:
\* future_to_data and its handled futures go out of scope.  Back in
\* upload_artforms the batch is cleared.
ExitBatch ==
    /\ pc = "drain"
    /\ BatchComplete(batch_no)
    /\ tasks' = [t \in TaskIds |-> Forget(tasks[t])]
    /\ cur' = 0
    /\ IF full
       THEN pc' = "sleep" /\ current_batch' = <<>>
       ELSE pc' = "final" /\ UNCHANGED current_batch
    /\ UNCHANGED <<config, json_vars, rate_vars, batch_vars, pos, full, batch_no, store_faults, stats,
                   stats_lock, store, clock, dispatched, delays, summary>>

\* time.sleep(self.config.processing.batch_delay)
BatchDelay ==
    /\ pc = "sleep"
    /\ delays' = Append(delays, batch_no)
    /\ pc' = "iter"
    /\ UNCHANGED <<config, json_vars, rate_vars, batch_vars, pos, current_batch, full, batch_no, store_faults, cur,
                   tasks, stats, stats_lock, store, clock, dispatched, summary>>

\* _log_final_stats() and `return self.stats`
LogFinalStats ==
    /\ pc = "final"
    /\ summary' = <<stats>>
    /\ pc' = "done"
    /\ UNCHANGED <<config, json_vars, rate_vars, batch_vars, pos, current_batch, full, batch_no, store_faults, cur,
                   tasks, stats, stats_lock, store, clock, dispatched, delays>>

\* variant: the entry point exits with 0 whatever the statistics say
MainExitAlwaysZero ==
    /\ pc = "done"
    /\ pc' = "exit0"
    /\ UNCHANGED <<config, json_vars, rate_vars, batch_vars, pos, current_batch, full, batch_no, store_faults, cur,
                   tasks, stats, stats_lock, store, clock, dispatched, delays,
                   summary>>

\* main(): upload_artforms returned the statistics;
\* `if stats.errors > 0: sys.exit(1)` / `else: sys.exit(0)`
MainExit ==
    /\ pc = "done"
    /\ pc' = IF stats.errors > 0 THEN "exit1" ELSE "exit0"
    /\ UNCHANGED <<config, json_vars, rate_vars, batch_vars, pos, current_batch, full, batch_no, store_faults, cur,
                   tasks, stats, stats_lock, store, clock, dispatched, delays,
                   summary>>

\* main(): `except Exception` around the run: sys.exit(1)
MainExcept ==
    /\ pc = "raised"
    /\ pc' = "exit1"
    /\ UNCHANGED <<config, json_vars, rate_vars, batch_vars, pos, current_batch, full, batch_no, store_faults, cur,
                   tasks, stats, stats_lock, store, clock, dispatched, delays,
                   summary>>


\* ------------------------------------------------------------- _update_stats
\* variant: _update_stats without `with self.stats_lock:`
UpdateWithoutLock ==
    /\ pc = "upd_lock"
    /\ pc' = "upd_cat"
    /\ UNCHANGED <<config, json_vars, rate_vars, batch_vars, pos, current_batch, full, batch_no, store_faults, cur,
                   tasks, stats, stats_lock, store, clock, dispatched, delays,
                   summary>>

\* `with self.stats_lock:` of _update_stats(result)
UpdateAcquire ==
    /\ pc = "upd_lock"
    /\ stats_lock = "none"
    /\ stats_lock' = "main"
    /\ pc' = "upd_cat"
    /\ UNCHANGED <<config, json_vars, rate_vars, batch_vars, pos, current_batch, full, batch_no, store_faults, cur,
                   tasks, stats, store, clock, dispatched, delays, summary>>

\* variant: a success is counted only when the document is new
UpdateCategoryNewOnly ==
    /\ pc = "upd_cat"
    /\ IF tasks[cur].result.success
       THEN /\ stats' = IF tasks[cur].result.is_new_document
                        THEN [stats EXCEPT !.success = @ + 1]
                        ELSE stats
            /\ pc' = "upd_new"
       ELSE /\ stats' = [stats EXCEPT !.errors = @ + 1]
            /\ pc' = "upd_total"
    /\ UNCHANGED <<config, json_vars, rate_vars, batch_vars, pos, current_batch, full, batch_no, store_faults, cur,
                   tasks, stats_lock, store, clock, dispatched, delays, summary>>

\* `if result.success: self.stats.success += 1` / `else: self.stats.errors += 1`
UpdateCategory ==
    /\ pc = "upd_cat"
    /\ IF tasks[cur].result.success
       THEN /\ stats' = [stats EXCEPT !.success = @ + 1]
            /\ pc' = "upd_new"
       ELSE /\ stats' = [stats EXCEPT !.errors = @ + 1]
            /\ pc' = "upd_total"
    /\ UNCHANGED <<config, json_vars, rate_vars, batch_vars, pos, current_batch, full, batch_no, store_faults, cur,
                   tasks, stats_lock, store, clock, dispatched, delays, summary>>

\* variant: a new document is counted as updated too
UpdateNewAndUpdated ==
    /\ pc = "upd_new"
    /\ IF tasks[cur].result.is_new_document
       THEN stats' = [stats EXCEPT !.new_documents = @ + 1,
                                   !.updated_documents = @ + 1]
       ELSE stats' = [stats EXCEPT !.updated_documents = @ + 1]
    /\ pc' = "upd_total"
    /\ UNCHANGED <<config, json_vars, rate_vars, batch_vars, pos, current_batch, full, batch_no, store_faults, cur,
                   tasks, stats_lock, store, clock, dispatched, delays, summary>>

\* `if result.is_new_document: new_documents += 1 else: updated_documents += 1`
UpdateNewOrUpdated ==
    /\ pc = "upd_new"
    /\ IF tasks[cur].result.is_new_document
       THEN stats' = [stats EXCEPT !.new_documents = @ + 1]
       ELSE stats' = [stats EXCEPT !.updated_documents = @ + 1]
    /\ pc' = "upd_total"
    /\ UNCHANGED <<config, json_vars, rate_vars, batch_vars, pos, current_batch, full, batch_no, store_faults, cur,
                   tasks, stats_lock, store, clock, dispatched, delays, summary>>

\* variant: the lock is acquired without a with block and never released
UpdateTotalKeepsLock ==
    /\ pc = "upd_total"
    /\ stats' = [stats EXCEPT !.total_processed = @ + 1]
    /\ tasks' = [tasks EXCEPT ![cur].st = "folded"]
    /\ pc' = "drain"
    /\ UNCHANGED <<config, json_vars, rate_vars, batch_vars, pos, current_batch, full, batch_no,
                   store_faults, cur, stats_lock, store, clock, dispatched,
                   delays, summary>>

\* self.stats.total_processed += 1, the end of the with block of
\* _update_stats; back to the as_completed loop
UpdateTotal ==
    /\ pc = "upd_total"
    /\ stats' = [stats EXCEPT !.total_processed = @ + 1]
    /\ stats_lock' = "none"
    /\ tasks' = [tasks EXCEPT ![cur].st = "folded"]
    /\ pc' = "drain"
    /\ UNCHANGED <<config, json_vars, rate_vars, batch_vars, pos, current_batch, full, batch_no, store_faults, cur,
                   store, clock, dispatched, delays, summary>>

\* ------------------------- _process_batch: `except Exception` of the loop
ExceptAcquire ==
    /\ pc = "exc_lock"
    /\ stats_lock = "none"
    /\ stats_lock' = "main"
    /\ pc' = "exc_err"
    /\ UNCHANGED <<config, json_vars, rate_vars, batch_vars, pos, current_batch, full, batch_no, store_faults, cur,
                   tasks, stats, store, clock, dispatched, delays, summary>>

\* variant: the except branch also counts the record as an updated document
ExceptErrorsAlsoUpdated ==
    /\ pc = "exc_err"
    /\ stats' = [stats EXCEPT !.errors = @ + 1, !.updated_documents = @ + 1]
    /\ pc' = "exc_total"
    /\ UNCHANGED <<config, json_vars, rate_vars, batch_vars, pos, current_batch, full, batch_no, store_faults, cur,
                   tasks, stats_lock, store, clock, dispatched, delays, summary>>

\* self.stats.errors += 1
ExceptErrors ==
    /\ pc = "exc_err"
    /\ stats' = [stats EXCEPT !.errors = @ + 1]
    /\ pc' = "exc_total"
    /\ UNCHANGED <<config, json_vars, rate_vars, batch_vars, pos, current_batch, full, batch_no, store_faults, cur,
                   tasks, stats_lock, store, clock, dispatched, delays, summary>>

\* variant: the except branch counts the error but not total_processed
ExceptTotalForgotten ==
    /\ pc = "exc_total"
    /\ stats_lock' = "none"
    /\ tasks' = [tasks EXCEPT ![cur].st = "folded"]
    /\ pc' = "drain"
    /\ UNCHANGED <<config, json_vars, rate_vars, batch_vars, pos, current_batch, full, batch_no, store_faults, cur,
                   stats, store, clock, dispatched, delays, summary>>

\* self.stats.total_processed += 1, the end of the with block; back to the
\* as_completed loop
ExceptTotal ==
    /\ pc = "exc_total"
    /\ stats' = [stats EXCEPT !.total_processed = @ + 1]
    /\ stats_lock' = "none"
    /\ tasks' = [tasks EXCEPT ![cur].st = "folded"]
    /\ pc' = "drain"
    /\ UNCHANGED <<config, json_vars, rate_vars, batch_vars, pos, current_batch, full, batch_no, store_faults, cur,
                   store, clock, dispatched, delays, summary>>

\* ------------------------------------- worker threads: upload_document
\* variant: the worker thread counts the record as processed when it starts
StartTaskCounts(t) ==
    /\ t \in TaskIds
    /\ tasks[t].st = "queued"
    /\ HeadOfQueue(t)
    /\ WorkerAvailable(tasks[t].batch)
    /\ tasks' = [tasks EXCEPT ![t].st = "get", ![t].attempts = 1]
    /\ stats' = [stats EXCEPT !.total_processed = @ + 1]
    /\ UNCHANGED <<config, json_vars, rate_vars, batch_vars, pc, pos, current_batch, full, batch_no, store_faults, cur,
                   stats_lock, store, clock, dispatched, delays, summary>>

\* An idle worker thread of the task's executor takes the work item and
\* enters the decorated upload_document (first attempt).
StartTask(t) ==
    /\ t \in TaskIds
    /\ tasks[t].st = "queued"
    /\ HeadOfQueue(t)
    /\ WorkerAvailable(tasks[t].batch)
    /\ tasks' = [tasks EXCEPT ![t].st = "get", ![t].attempts = 1]
    /\ UNCHANGED <<config, json_vars, rate_vars, batch_vars, pc, pos, current_batch, full, batch_no, store_faults, cur,
                   stats, stats_lock, store, clock, dispatched, delays, summary>>

\* doc_snapshot = doc_ref.get(); is_new_document = not doc_snapshot.exists
upload_document_get(t) ==
    /\ t \in TaskIds
    /\ tasks[t].st = "get"
    /\ LET tk == tasks[t] IN
         \/ /\ Strikes(tk)
            /\ tasks' = [tasks EXCEPT
                          ![t] = RaisedInTry([tk EXCEPT !.faults = @ - 1], tk.plan.exc)]
            /\ store_faults' = store_faults + 1
         \/ /\ tk.plan.exc # "Unexpected"
            /\ tasks' = [tasks EXCEPT ![t].st = "set",
                          ![t].is_new = ~Exists(tk.artform.vals.slug)]
            /\ UNCHANGED store_faults
    /\ UNCHANGED <<config, json_vars, rate_vars, batch_vars, pc, pos, current_batch, full, batch_no, cur,
                   stats, stats_lock, store, clock, dispatched, delays, summary>>

\* doc_ref.set(doc_data, merge=True) and the successful return
upload_document_set(t) ==
    /\ t \in TaskIds
    /\ tasks[t].st = "set"
    /\ LET tk  == tasks[t]
           key == tk.artform.vals.slug
           old == IF Exists(key) THEN store[key] ELSE <<>>
       IN
         IF Strikes(tk)
         THEN /\ tasks' = [tasks EXCEPT
                            ![t] = RaisedInTry([tk EXCEPT !.faults = @ - 1], tk.plan.exc)]
              /\ store_faults' = store_faults + 1
              /\ UNCHANGED <<store, clock>>
         ELSE /\ store' = [k \in DOMAIN store \cup {key} |->
                             IF k = key
                             THEN Merge(old, DocData(tk.artform, tk.is_new, clock))
                             ELSE store[k]]
              /\ clock' = clock + 1
              /\ tasks' = [tasks EXCEPT
                            ![t] = AttemptReturns(tk, SuccessResult(tk.artform, tk.is_new))]
              /\ UNCHANGED store_faults
    /\ UNCHANGED <<config, json_vars, rate_vars, batch_vars, pc, pos, current_batch, full, batch_no, cur,
                   stats, stats_lock, dispatched, delays, summary>>

Next ==
    \/ NextRow
    \/ SkipAcquire
    \/ SkipCount
    \/ SourceExhausted
    \/ SourceRaises
    \/ EnterBatch
    \/ Submit
    \/ \E t \in TaskIds : TakeCompleted(t)
    \/ ExitBatch
    \/ BatchDelay
    \/ LogFinalStats
    \/ MainExit
    \/ MainExcept
    \/ UpdateAcquire
    \/ UpdateCategory
    \/ UpdateNewOrUpdated
    \/ UpdateTotal
    \/ ExceptAcquire
    \/ ExceptErrors
    \/ ExceptTotal
    \/ \E t \in TaskIds : StartTask(t)
    \/ \E t \in TaskIds : upload_document_get(t)
    \/ \E t \in TaskIds : upload_document_set(t)

Spec == Init /\ [][Next]_vars

\* --------------------------------------------------------------------------
\* A run of upload_artforms over a source that can be read to its end (the
\* parser does not raise), with threads that are scheduled: whenever some
\* thread can take a step, a step is eventually taken.  Every attempt of an
\* upload ends: the store answers the existence check and the write, with a
\* value or with an error.
NextRun ==
    \/ NextRow
    \/ SkipAcquire
    \/ SkipCount
    \/ SourceExhausted
    \/ EnterBatch
    \/ Submit
    \/ \E t \in TaskIds : TakeCompleted(t)
    \/ ExitBatch
    \/ BatchDelay
    \/ LogFinalStats
    \/ MainExit
    \/ UpdateAcquire
    \/ UpdateCategory
    \/ UpdateNewOrUpdated
    \/ UpdateTotal
    \/ ExceptAcquire
    \/ ExceptErrors
    \/ ExceptTotal
    \/ \E t \in TaskIds : StartTask(t)
    \/ \E t \in TaskIds : upload_document_get(t)
    \/ \E t \in TaskIds : upload_document_set(t)

InitLive ==
    /\ source \in UNION {[1..n -> Entries] : n \in 0..MaxLiveRows}
    /\ batch_size \in 1..MaxBatchSize
    /\ max_workers \in 1..MaxWorkers
    /\ pc = "iter"
    /\ pos = 1
    /\ current_batch = <<>>
    /\ full = FALSE
    /\ batch_no = 0
    /\ store_faults = 0
    /\ cur = 0
    /\ tasks = <<>>
    /\ stats = ZeroStats
    /\ stats_lock = "none"
    /\ store = <<>>
    /\ clock = 1
    /\ dispatched = <<>>
    /\ delays = <<>>
    /\ summary = <<>>
    /\ JsonIdle
    /\ RatesIdle
    /\ BatchIdle

SpecLive == InitLive /\ [][NextRun]_vars /\ WF_vars(NextRun)

\* --------------------------------------------------------------------------
\* The upload operation on its own: the worker threads of one batch of two
\* records with the same key, right after the submission, against every fault
\* the store can show.  With one worker thread the two uploads run in
\* sequence, with two they overlap.  The orchestrating thread (which touches
\* neither the store nor the tasks' results before they are complete) is
\* left out.
UploadBatches ==
    {<<<<RowNum(1), a>>, <<RowNum(2), b>>>> : a, b \in {RecAName, RecACount}}

InitUpload ==
    /\ \E batch \in UploadBatches :
         /\ source = [i \in 1..2 |-> Row(batch[i][2])]
         /\ current_batch = batch
         /\ dispatched = <<batch>>
         /\ \E plans \in [1..2 -> Plans] :
              tasks = [i \in 1..2 |-> NewTask(1, batch[i], plans[i])]
    /\ batch_size = 2
    /\ max_workers \in 1..MaxWorkers
    /\ pc = "drain"
    /\ pos = 3
    /\ full = TRUE
    /\ batch_no = 1
    /\ store_faults = 0
    /\ cur = 0
    /\ stats = ZeroStats
    /\ stats_lock = "none"
    /\ store = <<>>
    /\ clock = 1
    /\ delays = <<>>
    /\ summary = <<>>
    /\ JsonIdle
    /\ RatesIdle
    /\ BatchIdle

NextUpload ==
    \/ \E t \in TaskIds : StartTask(t)
    \/ \E t \in TaskIds : upload_document_get(t)
    \/ \E t \in TaskIds : upload_document_set(t)

SpecUpload == InitUpload /\ [][NextUpload]_vars

\* --------------------------------------------------------------------------
\* The validity check on its own: a run over a source of one record whose
\* slug is any string of at most MaxSlugLen characters, letters and
\* whitespace mixed.
SlugChars == {"a"} \cup Whitespace

Slugs == UNION {[1..n -> SlugChars] : n \in 0..MaxSlugLen}

InitValid ==
    /\ \E s \in Slugs : source = <<Row(set_field_value(NewArtform, "slug", s))>>
    /\ batch_size \in 1..MaxBatchSize
    /\ max_workers \in 1..MaxWorkers
    /\ pc = "iter"
    /\ pos = 1
    /\ current_batch = <<>>
    /\ full = FALSE
    /\ batch_no = 0
    /\ store_faults = 0
    /\ cur = 0
    /\ tasks = <<>>
    /\ stats = ZeroStats
    /\ stats_lock = "none"
    /\ store = <<>>
    /\ clock = 1
    /\ dispatched = <<>>
    /\ delays = <<>>
    /\ summary = <<>>
    /\ JsonIdle
    /\ RatesIdle
    /\ BatchIdle

SpecValid == InitValid /\ [][Next]_vars

\* --------------------------------------------------------------------------
\* to_firestore_dict on its own: uploads of records in every state the
\* dataclass allows.  A record is made by the constructor, with or without
\* a slug argument, followed by any of the set_field_value calls below (one
\* of them names the class attribute, one an attribute the class does not
\* have).  The record is uploaded to a key that already holds a document
\* with a name.
ArtformCtor(slug) == [vals |-> [Defaults EXCEPT !.slug = slug], touched |-> {}]

FieldCalls ==
    <<<<"slug", <<"a">>>>, <<"name", "Y">>, <<"artist_count", 7>>,
      <<"_field_types", "t">>, <<"unknown", "u">>>>

\* rec after the calls of FieldCalls whose index is in `chosen`, in order
RECURSIVE ApplyCalls(_, _, _)
ApplyCalls(rec, chosen, i) ==
    IF i > Len(FieldCalls)
    THEN rec
    ELSE ApplyCalls(IF i \in chosen
                    THEN set_field_value(rec, FieldCalls[i][1], FieldCalls[i][2])
                    ELSE rec,
                    chosen, i + 1)

DictRecords ==
    {r \in {ApplyCalls(ArtformCtor(s), chosen, 1) :
               s \in {<<>>, <<"a">>}, chosen \in SUBSET (1..Len(FieldCalls))} :
        r.vals.slug = <<"a">>}

InitDict ==
    /\ \E rec \in DictRecords, plan \in Plans :
         LET batch == <<<<RowNum(1), RecAName>>, <<RowNum(2), rec>>>> IN
         /\ source = [i \in 1..2 |-> Row(batch[i][2])]
         /\ current_batch = batch
         /\ dispatched = <<batch>>
         /\ tasks = <<NewTask(1, batch[1], NoFault), NewTask(1, batch[2], plan)>>
    /\ batch_size = 2
    /\ max_workers \in 1..MaxWorkers
    /\ pc = "drain"
    /\ pos = 3
    /\ full = TRUE
    /\ batch_no = 1
    /\ store_faults = 0
    /\ cur = 0
    /\ stats = ZeroStats
    /\ stats_lock = "none"
    /\ store = <<>>
    /\ clock = 1
    /\ delays = <<>>
    /\ summary = <<>>
    /\ JsonIdle
    /\ RatesIdle
    /\ BatchIdle

SpecDict == InitDict /\ [][NextUpload]_vars

\* --------------------------------------------------------------------------
\* FirestoreManager.batch_upload(artforms): every record is staged in one
\* WriteBatch, the batch is committed, and the results are built afterwards,
\* all successful or all failed.
\* A record with another key, for batches of several documents.
RecBName == set_field_value(set_field_value(NewArtform, "slug", <<"b">>), "name", "Z")

BatchRecords == {RecAName, RecACount, RecBName}

\* The collection before the call: empty, or holding a document for key "a"
\* that an earlier run created (at time 0) with a name and a category.
PriorStores ==
    {<<>>,
     [k \in {<<"a">>} |->
        [slug |-> <<"a">>, name |-> "old", category |-> "c",
         created_at |-> 0, updated_at |-> 0]]}

\* variant: created_at only for a key that holds no document
BatchDocDataChecked(rec, now) == DocData(rec, ~Exists(rec.vals.slug), now)

\* doc_data of batch_upload: to_firestore_dict() with updated_at and
\* created_at, both SERVER_TIMESTAMP
BatchDocData(rec, now) ==
    LET base == to_firestore_dict(rec)
    IN  [f \in DOMAIN base \cup {"updated_at", "created_at"} |->
            IF f \in {"updated_at", "created_at"} THEN now ELSE base[f]]

\* ProcessResult(doc_id=artform.slug, success=True, is_new_document=True)
BatchSuccessResult(rec) == SuccessResult(rec, TRUE)

\* the store after the first n staged writes have been applied, in order
RECURSIVE ApplyWrites(_, _, _)
ApplyWrites(st, writes, n) ==
    IF n = 0
    THEN st
    ELSE LET before == ApplyWrites(st, writes, n - 1)
             key    == writes[n][1]
             old    == IF key \in DOMAIN before THEN before[key] ELSE <<>>
         IN  [k \in DOMAIN before \cup {key} |->
                IF k = key THEN Merge(old, writes[n][2]) ELSE before[k]]

InitBatch ==
    /\ artforms \in UNION {[1..n -> BatchRecords] : n \in 0..MaxRows}
    /\ commit_raises \in BOOLEAN
    /\ batch_pc = "stage"
    /\ staged = <<>>
    /\ results = <<>>
    /\ store \in PriorStores
    /\ clock = 1
    /\ source = <<>>
    /\ batch_size = 1
    /\ max_workers = 1
    /\ pc = "idle"
    /\ pos = 1
    /\ current_batch = <<>>
    /\ full = FALSE
    /\ batch_no = 0
    /\ store_faults = 0
    /\ cur = 0
    /\ tasks = <<>>
    /\ stats = ZeroStats
    /\ stats_lock = "none"
    /\ dispatched = <<>>
    /\ delays = <<>>
    /\ summary = <<>>
    /\ JsonIdle
    /\ RatesIdle

\* one iteration of `for artform in artforms`: batch.set(doc_ref, doc_data,
\* merge=True)
BatchSet ==
    /\ batch_pc = "stage"
    /\ Len(staged) < Len(artforms)
    /\ LET rec == artforms[Len(staged) + 1] IN
         staged' = Append(staged, <<rec.vals.slug, BatchDocData(rec, clock)>>)
    /\ UNCHANGED <<upload_vars, json_vars, rate_vars, artforms, commit_raises,
                   batch_pc, results>>

\* batch.commit() applies every staged write at one server time; then one
\* successful result per record
BatchCommit ==
    /\ batch_pc = "stage"
    /\ Len(staged) = Len(artforms)
    /\ ~commit_raises
    /\ store' = ApplyWrites(store, staged, Len(staged))
    /\ clock' = clock + 1
    /\ results' = [i \in 1..Len(artforms) |-> BatchSuccessResult(artforms[i])]
    /\ batch_pc' = "returned"
    /\ UNCHANGED <<config, json_vars, rate_vars, artforms, commit_raises, staged,
                   pc, pos, current_batch, full, batch_no, store_faults, cur,
                   tasks, stats, stats_lock, dispatched, delays, summary>>

\* batch.commit() raises: `except Exception`: one failed result per record
BatchCommitRaises ==
    /\ batch_pc = "stage"
    /\ Len(staged) = Len(artforms)
    /\ commit_raises
    /\ results' = [i \in 1..Len(artforms) |->
                     FailedResult(artforms[i], "GoogleCloudError")]
    /\ batch_pc' = "returned"
    /\ UNCHANGED <<upload_vars, json_vars, rate_vars, artforms, commit_raises,
                   staged>>

NextBatch ==
    \/ BatchSet
    \/ BatchCommit
    \/ BatchCommitRaises

SpecBatch == InitBatch /\ [][NextBatch]_vars

\* --------------------------------------------------------------------------
\* The JSON entry point: upload_genai_collections and main of
\* src/jsonupload/main.py.
\* A file either fails to open or parse, or yields its "slug" entry (<<>>
\* when it has none) and its products; the write of a product either raises
\* or stores the product document.

\* a product of a file: the entries of its JSON object ("name" is "" when
\* missing or empty; there is no "price_inr" entry), and whether the store
\* fails the write of it
Products ==
    {[name |-> "", description |-> "d", size_inches |-> "8x10", fails |-> FALSE],
     [name |-> "p", description |-> "d", size_inches |-> "8x10", fails |-> FALSE],
     [name |-> "p", description |-> "d", size_inches |-> "8x10", fails |-> TRUE]}

\* dict.get(key, default)
Get(d, key, default) == IF key \in DOMAIN d THEN d[key] ELSE default

\* the slug of the i-th file of the folder, as its file name gives it
SlugOf(i) == <<"f", i>>

\* content.get("slug"): none, or one that differs from the file name's
ContentSlugs == {<<>>, <<"s", 0>>}

FilesOf(maxlen) ==
    {[loads |-> FALSE, slug |-> <<>>, products |-> <<>>]}
    \cup {[loads |-> TRUE, slug |-> sl, products |-> ps] :
            sl \in ContentSlugs,
            ps \in UNION {[1..n -> Products] : n \in 0..maxlen}}

JsonFiles == FilesOf(MaxProducts)

\* the document upload_genai_collections writes for a product
JsonProductDoc(prod) ==
    [description |-> Get(prod, "sescription", ""),
     size_inches |-> Get(prod, "size_inches", ""),
     price_inr   |-> Get(prod, "price_inr", "")]

\* the uploader of the CSV pipeline is not running
UploadIdle ==
    /\ source = <<>>
    /\ batch_size = 1
    /\ max_workers = 1
    /\ pc = "idle"
    /\ pos = 1
    /\ current_batch = <<>>
    /\ full = FALSE
    /\ batch_no = 0
    /\ store_faults = 0
    /\ cur = 0
    /\ tasks = <<>>
    /\ stats = ZeroStats
    /\ stats_lock = "none"
    /\ store = <<>>
    /\ clock = 1
    /\ dispatched = <<>>
    /\ delays = <<>>
    /\ summary = <<>>

InitJson ==
    /\ UploadIdle
    /\ json_files \in UNION {[1..n -> JsonFiles] : n \in 0..MaxFiles}
    /\ json_pc = "start"
    /\ file_pos = 0
    /\ prod_pos = 0
    /\ uploaded = 0
    /\ files_processed = 0
    /\ total_products = 0
    /\ errors = 0
    /\ json_store = <<>>
    /\ RatesIdle
    /\ BatchIdle

\* setup_logging, the Firebase client, the three counters at 0, os.listdir
JsonSetup ==
    /\ json_pc = "start"
    /\ json_pc' = "file"
    /\ file_pos' = 1
    /\ UNCHANGED <<upload_vars, rate_vars, batch_vars, json_files, prod_pos, uploaded, files_processed,
                   total_products, errors, json_store>>

\* the credentials, the client or os.listdir raise: the exception leaves
\* upload_genai_collections
JsonSetupRaises ==
    /\ json_pc = "start"
    /\ json_pc' = "raised"
    /\ UNCHANGED <<upload_vars, rate_vars, batch_vars, json_files, file_pos, prod_pos, uploaded,
                   files_processed, total_products, errors, json_store>>

\* open(file_path) and json.load(f); `except Exception: errors += 1` when
\* they raise, and on to the next file
JsonOpenFile ==
    /\ json_pc = "file"
    /\ file_pos <= Len(json_files)
    /\ IF json_files[file_pos].loads
       THEN /\ uploaded' = 0
            /\ prod_pos' = 1
            /\ json_pc' = "product"
            /\ UNCHANGED <<errors, file_pos>>
       ELSE /\ errors' = errors + 1
            /\ file_pos' = file_pos + 1
            /\ UNCHANGED <<uploaded, prod_pos, json_pc>>
    /\ UNCHANGED <<upload_vars, rate_vars, batch_vars, json_files, files_processed, total_products,
                   json_store>>

\* the end of one iteration of `for prod in products` by an exception:
\* `except Exception: errors += 1` ends the file
JsonProductRaises ==
    /\ errors' = errors + 1
    /\ file_pos' = file_pos + 1
    /\ json_pc' = "file"
    /\ UNCHANGED <<uploaded, prod_pos, json_store>>

\* prod_doc.set(..., merge=True) and uploaded += 1
JsonProductSet(key, prod) ==
    /\ json_store' =
          [k \in DOMAIN json_store \cup {key} |->
              IF k = key
              THEN Merge(IF key \in DOMAIN json_store THEN json_store[key] ELSE <<>>,
                         JsonProductDoc(prod))
              ELSE json_store[k]]
    /\ uploaded' = uploaded + 1
    /\ prod_pos' = prod_pos + 1
    /\ UNCHANGED <<errors, file_pos, json_pc>>

\* one iteration of `for prod in products`: the document reference from
\* prod.get("name", "") and the merge write.  What document("") does for a
\* product without a name is the client library's business: the iteration
\* raises or writes under the empty name.
JsonUploadProduct ==
    /\ json_pc = "product"
    /\ prod_pos <= Len(json_files[file_pos].products)
    /\ LET prod == json_files[file_pos].products[prod_pos]
           name == Get(prod, "name", "")
           key  == <<SlugOf(file_pos), name>>
       IN  IF prod.fails
           THEN JsonProductRaises
           ELSE IF name = ""
           THEN JsonProductRaises \/ JsonProductSet(key, prod)
           ELSE JsonProductSet(key, prod)
    /\ UNCHANGED <<upload_vars, rate_vars, batch_vars, json_files, files_processed, total_products>>

\* the products of the file are exhausted: total_products += uploaded,
\* files_processed += 1
JsonFileDone ==
    /\ json_pc = "product"
    /\ prod_pos > Len(json_files[file_pos].products)
    /\ total_products' = total_products + uploaded
    /\ files_processed' = files_processed + 1
    /\ file_pos' = file_pos + 1
    /\ json_pc' = "file"
    /\ UNCHANGED <<upload_vars, rate_vars, batch_vars, json_files, prod_pos, uploaded, errors, json_store>>

\* the files are exhausted: the summary is logged and
\* upload_genai_collections returns (None)
JsonSummary ==
    /\ json_pc = "file"
    /\ file_pos > Len(json_files)
    /\ json_pc' = "returned"
    /\ UNCHANGED <<upload_vars, rate_vars, batch_vars, json_files, file_pos, prod_pos, uploaded,
                   files_processed, total_products, errors, json_store>>

\* main(): upload_genai_collections returned: sys.exit(0)
JsonMainExit ==
    /\ json_pc = "returned"
    /\ json_pc' = "exit0"
    /\ UNCHANGED <<upload_vars, rate_vars, batch_vars, json_files, file_pos, prod_pos, uploaded,
                   files_processed, total_products, errors, json_store>>

\* main(): `except Exception`: sys.exit(1)
JsonMainExcept ==
    /\ json_pc = "raised"
    /\ json_pc' = "exit1"
    /\ UNCHANGED <<upload_vars, rate_vars, batch_vars, json_files, file_pos, prod_pos, uploaded,
                   files_processed, total_products, errors, json_store>>

NextJson ==
    \/ JsonSetup
    \/ JsonSetupRaises
    \/ JsonOpenFile
    \/ JsonUploadProduct
    \/ JsonFileDone
    \/ JsonSummary
    \/ JsonMainExit
    \/ JsonMainExcept

SpecJson == InitJson /\ [][NextJson]_vars

\* --------------------------------------------------------------------------
\* The derived rates of UploadStats (src/models.py).
\* 0.0
Zero == Float(0, 1)

\* Python's `/` on numbers: ZeroDivisionError on a zero divisor
TrueDiv(a, b) ==
    IF b = 0 THEN ZeroDivisionError
    ELSE IF a = 0 THEN Zero
    ELSE Float(a, b)

\* variant: success_rate without the `if self.total_processed == 0` guard
success_rate_unguarded(st) == TrueDiv(st.success * 100, st.total_processed)

\* UploadStats.success_rate: (self.success / self.total_processed) * 100
success_rate(st) ==
    IF st.total_processed = 0
    THEN Zero
    ELSE TrueDiv(st.success * 100, st.total_processed)

\* UploadStats.duration: time.time() - self.start_time
duration(t) == t - start_time

\* UploadStats.rate_per_second, read at local time t
rate_per_second(st, t) ==
    IF duration(t) = 0
    THEN Zero
    ELSE TrueDiv(st.total_processed, duration(t))

\* The statistics object in any state a run can leave it in, the clock at
\* the moment the object was created.
InitRates ==
    /\ source = <<>>
    /\ batch_size = 1
    /\ max_workers = 1
    /\ pc = "idle"
    /\ pos = 1
    /\ current_batch = <<>>
    /\ full = FALSE
    /\ batch_no = 0
    /\ store_faults = 0
    /\ cur = 0
    /\ tasks = <<>>
    /\ \E s, e, k \in 0..MaxCount :
         stats = [ZeroStats EXCEPT !.success = s, !.errors = e, !.skipped = k,
                                   !.total_processed = s + e,
                                   !.updated_documents = s]
    /\ stats_lock = "none"
    /\ store = <<>>
    /\ clock = 1
    /\ dispatched = <<>>
    /\ delays = <<>>
    /\ summary = <<>>
    /\ JsonIdle
    /\ start_time = 0
    /\ time_now = 0
    /\ rates = [success_rate |-> Unread, rate_per_second |-> Unread]
    /\ BatchIdle

\* the local clock advances
Tick ==
    /\ duration(time_now) < MaxElapsed
    /\ time_now' = time_now + 1
    /\ UNCHANGED <<upload_vars, json_vars, batch_vars, start_time, rates>>

\* self.stats.success_rate is read (as _log_final_stats does)
ReadSuccessRate ==
    /\ rates' = [rates EXCEPT !.success_rate =
                    [duration |-> duration(time_now), value |-> success_rate(stats)]]
    /\ UNCHANGED <<upload_vars, json_vars, batch_vars, start_time, time_now>>

\* self.stats.rate_per_second is read (as _log_final_stats and __str__ do)
ReadRatePerSecond ==
    /\ rates' = [rates EXCEPT !.rate_per_second =
                    [duration |-> duration(time_now), value |-> rate_per_second(stats, time_now)]]
    /\ UNCHANGED <<upload_vars, json_vars, batch_vars, start_time, time_now>>

NextRates ==
    \/ Tick
    \/ ReadSuccessRate
    \/ ReadRatePerSecond

SpecRates == InitRates /\ [][NextRates]_vars

\* --------------------------------------------------------------------------
\* The JSON product pipeline: GenAIProductUploader of
\* src/jsonupload/uploader.py.  It has the fields of ArtformUploader (config,
\* stats, stats_lock) and the same batch loop; its records are
\* (slug, product) pairs read from the files of json_folder, and its upload
\* is a single merge write.  The upload catches every exception itself, so
\* the except branch of its as_completed loop is never entered.
\* The fold of one outcome (_update_stats, a single with block run by the
\* orchestrating thread) is one step here.

ProductFiles == FilesOf(MaxFileProducts)

\* the document _upload_product_document writes for a product
ProductDoc(prod) ==
    [description |-> Get(prod, "description", ""),
     size_inches |-> Get(prod, "size_inches", ""),
     price_inr   |-> Get(prod, "price_inr", "")]

InitProducts ==
    /\ json_files \in UNION {[1..n -> ProductFiles] : n \in 0..MaxFiles}
    /\ json_pc = "idle"
    /\ file_pos = 1
    /\ prod_pos = 0
    /\ uploaded = 0
    /\ files_processed = 0
    /\ total_products = 0
    /\ errors = 0
    /\ json_store = <<>>
    /\ RatesIdle
    /\ BatchIdle
    /\ source = <<>>
    /\ batch_size \in 1..MaxBatchSize
    /\ max_workers \in 1..MaxWorkers
    /\ pc = "p_load"
    /\ pos = 1
    /\ current_batch = <<>>
    /\ full = FALSE
    /\ batch_no = 0
    /\ store_faults = 0
    /\ cur = 0
    /\ tasks = <<>>
    /\ stats = ZeroStats
    /\ stats_lock = "none"
    /\ store = <<>>
    /\ clock = 1
    /\ dispatched = <<>>
    /\ delays = <<>>
    /\ summary = <<>>

\* os.listdir raises: `except Exception: raise` of upload_top_products
ListdirRaises ==
    /\ pc = "p_load"
    /\ file_pos = 1
    /\ pc' = "raised"
    /\ UNCHANGED <<config, json_vars, rate_vars, batch_vars, pos, current_batch, full,
                   batch_no, store_faults, cur, tasks, stats, stats_lock, store,
                   clock, dispatched, delays, summary>>

\* _load_all_json, one file: its products are appended to product_data
\* under content.get("slug"), or under the slug of the file name when there
\* is none; when the file cannot be opened or parsed, skipped += 1 under
\* stats_lock
LoadJsonFile ==
    /\ pc = "p_load"
    /\ file_pos <= Len(json_files)
    /\ stats_lock = "none"
    /\ LET f == json_files[file_pos] IN
         IF f.loads
         THEN /\ source' = source \o [i \in 1..Len(f.products) |->
                                        <<IF f.slug # <<>> THEN f.slug
                                          ELSE SlugOf(file_pos),
                                          f.products[i]>>]
              /\ UNCHANGED stats
         ELSE /\ stats' = [stats EXCEPT !.skipped = @ + 1]
              /\ UNCHANGED source
    /\ file_pos' = file_pos + 1
    /\ UNCHANGED <<batch_size, max_workers, rate_vars, batch_vars, json_files, json_pc,
                   prod_pos, uploaded, files_processed, total_products, errors,
                   json_store, pc, pos, current_batch, full, batch_no,
                   store_faults, cur, tasks, stats_lock, store, clock,
                   dispatched, delays, summary>>

\* _load_all_json returns product_data
LoadAllJsonDone ==
    /\ pc = "p_load"
    /\ file_pos > Len(json_files)
    /\ pc' = "p_iter"
    /\ UNCHANGED <<config, json_vars, rate_vars, batch_vars, pos, current_batch, full,
                   batch_no, store_faults, cur, tasks, stats, stats_lock, store,
                   clock, dispatched, delays, summary>>

\* one iteration of `for slug, product in product_batches`
ProductNext ==
    /\ pc = "p_iter"
    /\ pos <= Len(source)
    /\ pos' = pos + 1
    /\ LET nb == Append(current_batch, source[pos]) IN
         /\ current_batch' = nb
         /\ IF BatchFull(nb)
            THEN pc' = "p_batch" /\ full' = TRUE
            ELSE pc' = "p_iter" /\ UNCHANGED full
    /\ UNCHANGED <<config, json_vars, rate_vars, batch_vars, batch_no, store_faults, cur,
                   tasks, stats, stats_lock, store, clock, dispatched, delays,
                   summary>>

\* `if current_batch:` after the loop
ProductsExhausted ==
    /\ pc = "p_iter"
    /\ pos > Len(source)
    /\ IF current_batch # <<>>
       THEN pc' = "p_batch" /\ full' = FALSE
       ELSE pc' = "p_final" /\ UNCHANGED full
    /\ UNCHANGED <<config, json_vars, rate_vars, batch_vars, pos, current_batch, batch_no,
                   store_faults, cur, tasks, stats, stats_lock, store, clock,
                   dispatched, delays, summary>>

NewProductTask(b, item) ==
    [batch |-> b, slug |-> item[1], product |-> item[2], st |-> "queued",
     result |-> NoResult, raised |-> ""]

\* _process_batch: the executor and one submitted task per (slug, product)
ProductSubmit ==
    /\ pc = "p_batch"
    /\ batch_no' = batch_no + 1
    /\ dispatched' = Append(dispatched, current_batch)
    /\ tasks' = tasks \o [i \in 1..Len(current_batch) |->
                             NewProductTask(batch_no + 1, current_batch[i])]
    /\ pc' = "p_drain"
    /\ UNCHANGED <<config, json_vars, rate_vars, batch_vars, pos, current_batch, full,
                   store_faults, cur, stats, stats_lock, store, clock, delays,
                   summary>>

\* an idle worker thread takes the oldest queued work item
ProductStart(t) ==
    /\ t \in TaskIds
    /\ pc = "p_drain"
    /\ tasks[t].st = "queued"
    /\ HeadOfQueue(t)
    /\ WorkerAvailable(tasks[t].batch)
    /\ tasks' = [tasks EXCEPT ![t].st = "set"]
    /\ UNCHANGED <<config, json_vars, rate_vars, batch_vars, pc, pos, current_batch, full,
                   batch_no, store_faults, cur, stats, stats_lock, store, clock,
                   dispatched, delays, summary>>

ProductResult(name, ok, msg) ==
    [doc_id |-> IF name = "" THEN "unknown" ELSE name, success |-> ok,
     error_message |-> msg, row_number |-> 0, is_new_document |-> FALSE,
     fields_updated |-> {}]

\* _upload_product_document: a missing name raises ValueError inside the try
\* block; otherwise prod_ref.set(..., merge=True); every exception becomes a
\* failed ProcessResult
upload_product_document(t) ==
    /\ t \in TaskIds
    /\ pc = "p_drain"
    /\ tasks[t].st = "set"
    /\ LET p   == tasks[t].product
           key == <<tasks[t].slug, p.name>>
           old == IF Exists(key) THEN store[key] ELSE <<>>
       IN
         IF p.name = ""
         THEN /\ tasks' = [tasks EXCEPT ![t].st = "done",
                             ![t].result = ProductResult(p.name, FALSE, "ValueError")]
              /\ UNCHANGED <<store, store_faults>>
         ELSE IF p.fails
         THEN /\ tasks' = [tasks EXCEPT ![t].st = "done",
                             ![t].result = ProductResult(p.name, FALSE, "GoogleCloudError")]
              /\ store_faults' = store_faults + 1
              /\ UNCHANGED store
         ELSE /\ store' = [k \in DOMAIN store \cup {key} |->
                             IF k = key
                             THEN Merge(old, ProductDoc(p))
                             ELSE store[k]]
              /\ tasks' = [tasks EXCEPT ![t].st = "done",
                             ![t].result = ProductResult(p.name, TRUE, "")]
              /\ UNCHANGED store_faults
    /\ UNCHANGED <<config, json_vars, rate_vars, batch_vars, pc, pos, current_batch, full,
                   batch_no, cur, stats, stats_lock, clock, dispatched, delays,
                   summary>>

\* as_completed yields the future; _update_stats(result): success or errors,
\* then total_processed, under stats_lock
ProductFold(t) ==
    /\ t \in TasksOf(batch_no)
    /\ pc = "p_drain"
    /\ tasks[t].st = "done"
    /\ stats_lock = "none"
    /\ cur' = t
    /\ stats' = IF tasks[t].result.success
                THEN [stats EXCEPT !.success = @ + 1, !.total_processed = @ + 1]
                ELSE [stats EXCEPT !.errors = @ + 1, !.total_processed = @ + 1]
    /\ tasks' = [tasks EXCEPT ![t].st = "folded"]
    /\ UNCHANGED <<config, json_vars, rate_vars, batch_vars, pc, pos, current_batch, full,
                   batch_no, store_faults, stats_lock, store, clock, dispatched,
                   delays, summary>>

\* _process_batch returns; after a batch of the loop: current_batch = [] and
\* `if batch_delay > 0: time.sleep(batch_delay)`
ProductExitBatch ==
    /\ pc = "p_drain"
    /\ BatchComplete(batch_no)
    /\ IF full
       THEN /\ current_batch' = <<>>
            /\ delays' = IF batch_delay > 0 THEN Append(delays, batch_no) ELSE delays
            /\ pc' = "p_iter"
       ELSE /\ pc' = "p_final"
            /\ UNCHANGED <<current_batch, delays>>
    /\ UNCHANGED <<config, json_vars, rate_vars, batch_vars, pos, full, batch_no,
                   store_faults, cur, tasks, stats, stats_lock, store, clock,
                   dispatched, summary>>

\* _log_final_stats() and `return self.stats`
ProductLogFinalStats ==
    /\ pc = "p_final"
    /\ summary' = <<stats>>
    /\ pc' = "p_done"
    /\ UNCHANGED <<config, json_vars, rate_vars, batch_vars, pos, current_batch, full,
                   batch_no, store_faults, cur, tasks, stats, stats_lock, store,
                   clock, dispatched, delays>>

NextProducts ==
    \/ ListdirRaises
    \/ LoadJsonFile
    \/ LoadAllJsonDone
    \/ ProductNext
    \/ ProductsExhausted
    \/ ProductSubmit
    \/ \E t \in TaskIds : ProductStart(t)
    \/ \E t \in TaskIds : upload_product_document(t)
    \/ \E t \in TaskIds : ProductFold(t)
    \/ ProductExitBatch
    \/ ProductLogFinalStats

SpecProducts == InitProducts /\ [][NextProducts]_vars

\* --------------------------------------------------------------------------
\* The two JSON uploads on the same folder: upload_genai_collections writes
\* to one collection (json_store), and, once its process has exited,
\* GenAIProductUploader.upload_top_products reads the same files and writes
\* to another, empty one (store).
InitEquiv ==
    /\ UploadIdle
    /\ json_files \in UNION {[1..n -> ProductFiles] : n \in 0..MaxFiles}
    /\ json_pc = "start"
    /\ file_pos = 0
    /\ prod_pos = 0
    /\ uploaded = 0
    /\ files_processed = 0
    /\ total_products = 0
    /\ errors = 0
    /\ json_store = <<>>
    /\ RatesIdle
    /\ BatchIdle

\* GenAIProductUploader(config).upload_top_products() is called, with the
\* batch size and the worker count of its configuration
RunThreaded ==
    /\ json_pc \in {"exit0", "exit1"}
    /\ pc = "idle"
    /\ pc' = "p_load"
    /\ file_pos' = 1
    /\ batch_size' \in 1..MaxBatchSize
    /\ max_workers' \in 1..MaxWorkers
    /\ UNCHANGED <<rate_vars, batch_vars, json_files, json_pc, prod_pos,
                   uploaded, files_processed, total_products, errors,
                   json_store, source, pos, current_batch, full, batch_no,
                   store_faults, cur, tasks, stats, stats_lock, store, clock,
                   dispatched, delays, summary>>

NextEquiv ==
    \/ NextJson
    \/ RunThreaded
    \/ NextProducts

SpecEquiv == InitEquiv /\ [][NextEquiv]_vars


\* ==========================================================================
\* Properties
\* ==========================================================================
\* A row is invalid when it is the None marker or when its slug is empty
\* after trimming (stated from the slug, independently of is_valid).
InvalidRow(e) == e.is_none \/ Strip(e.artform.vals.slug) = <<>>

ValidIdx == {i \in 1..Len(source) : ~InvalidRow(source[i])}

InvalidIdx == {i \in 1..Len(source) : InvalidRow(source[i])}

RECURSIVE SumLen(_)
SumLen(bs) == IF bs = <<>> THEN 0 ELSE Len(Head(bs)) + SumLen(Tail(bs))

Started(t) == tasks[t].st # "queued"

\* the orchestrating thread is inside _process_batch
InBatch == pc \in {"submit", "drain", "upd_lock", "upd_cat", "upd_new",
                   "upd_total", "exc_lock", "exc_err", "exc_total"}

\* C1: batches are strictly sequential: whenever an upload task of a batch
\* has started, every upload task of every earlier batch has finished
\* (returned an outcome or raised).
C1_BatchesSequential ==
    \A t \in TaskIds :
        Started(t) =>
            \A u \in TaskIds : tasks[u].batch < tasks[t].batch => Finished(u)

\* a task of the second batch is running and the first batch has tasks
C1_Witness ==
    \E t \in TaskIds :
        /\ tasks[t].batch = 2
        /\ Running(t)
        /\ \E u \in TaskIds : tasks[u].batch = 1 /\ Finished(u)

\* C2: at every instant, the upload_document calls of one batch that have
\* started and not finished are at most max_workers.
C2_AtMostMaxWorkers ==
    \A b \in 1..batch_no :
        Cardinality({t \in TaskIds : tasks[t].batch = b
                                      /\ tasks[t].st \in {"get", "set"}}) <= max_workers

\* the pool is saturated: max_workers uploads in flight and one more queued
C2_Witness ==
    \E b \in 1..batch_no :
        /\ Cardinality({t \in TaskIds : tasks[t].batch = b
                                         /\ tasks[t].st \in {"get", "set"}}) = max_workers
        /\ \E t \in TaskIds : tasks[t].batch = b /\ tasks[t].st = "queued"

\* C3 as claimed: in every reachable state, also between the counter
\* increments of one fold, success + errors == total_processed.
C3_BalancedInEveryState ==
    stats.success + stats.errors = stats.total_processed

\* C3 amended: success + errors == total_processed in every state in which
\* stats_lock is free; while the lock is held (inside one fold) success +
\* errors is ahead of total_processed by at most the one outcome being folded.
C3_BalancedWhenLockFree ==
    /\ stats_lock = "none" => stats.success + stats.errors = stats.total_processed
    /\ stats.success + stats.errors - stats.total_processed \in {0, 1}

\* between two folds, after a skipped row, a success and an error
C3_Witness ==
    /\ stats_lock = "none"
    /\ pc = "drain"
    /\ stats.success >= 1
    /\ stats.errors >= 1
    /\ stats.skipped >= 1

\* C4: the accumulation loop dispatches no empty batch and no batch but the
\* last one with a size other than batch_size; a completed run has dispatched
\* ceil(N/B) batches whose sizes sum to N, N being the number of valid rows.
C4_BatchCount ==
    /\ \A k \in 1..Len(dispatched) :
         /\ Len(dispatched[k]) >= 1
         /\ Len(dispatched[k]) <= batch_size
         /\ k < Len(dispatched) => Len(dispatched[k]) = batch_size
    /\ pc = "done" =>
         /\ Len(dispatched) = (Cardinality(ValidIdx) + batch_size - 1) \div batch_size
         /\ SumLen(dispatched) = Cardinality(ValidIdx)

\* three valid rows with batch size two: a full batch and a smaller last one
C4_Witness ==
    /\ pc = "done"
    /\ Cardinality(ValidIdx) = 3
    /\ batch_size = 2
    /\ Len(dispatched) = 2
    /\ Len(dispatched[2]) = 1

\* C5: a None row or a row whose record is invalid never becomes an upload
\* task nor an element of a batch, and handling it adds one to skipped and
\* changes no other counter.
C5_NeverUploaded ==
    /\ \A t \in TaskIds : tasks[t].row - 1 \in ValidIdx
    /\ \A k \in 1..Len(dispatched) :
         \A j \in 1..Len(dispatched[k]) : dispatched[k][j][1] - 1 \in ValidIdx
    /\ \A j \in 1..Len(current_batch) : current_batch[j][1] - 1 \in ValidIdx

C5_SkipStep ==
    /\ (pc = "iter" /\ pos' = pos + 1 /\ pos \in InvalidIdx) =>
          /\ pc' = "skip_lock"
          /\ stats' = stats
          /\ tasks' = tasks
          /\ current_batch' = current_batch
    /\ pc = "skip_lock" => (pc' = "skip_inc" /\ stats' = stats /\ tasks' = tasks)
    /\ pc = "skip_inc" =>
          /\ stats' = [stats EXCEPT !.skipped = stats.skipped + 1]
          /\ tasks' = tasks
          /\ pc' = "iter"

C5_InvalidSkipped == []C5_NeverUploaded /\ [][C5_SkipStep]_vars

\* a None row and a blank-slug row have both been skipped in a finished run
C5_Witness ==
    /\ pc = "done"
    /\ \E i \in InvalidIdx : source[i].is_none
    /\ \E i \in InvalidIdx : ~source[i].is_none
    /\ stats.skipped = Cardinality(InvalidIdx)
    /\ stats.skipped >= 2

\* C6: no row is submitted twice, and when the run completes every valid row
\* has exactly one upload task, which has been folded; total_processed is the
\* number of valid rows and skipped the number of invalid ones.
C6_ExactlyOnce ==
    /\ \A t, u \in TaskIds : tasks[t].row = tasks[u].row => t = u
    /\ pc = "done" =>
         /\ \A i \in ValidIdx :
              \E t \in TaskIds : tasks[t].row = RowNum(i) /\ tasks[t].st = "folded"
         /\ stats.total_processed = Cardinality(ValidIdx)
         /\ stats.skipped = Cardinality(InvalidIdx)

\* one invalid row among three: skipped == 1 and total_processed == 2
C6_Witness ==
    /\ pc = "done"
    /\ Len(source) = 3
    /\ Cardinality(InvalidIdx) = 1
    /\ stats.skipped = 1
    /\ stats.total_processed = 2

\* C7: a failed outcome or a raised task does not abort the batch: whenever
\* the orchestrating thread is outside _process_batch, every record of every
\* dispatched batch has been uploaded and folded, and a finished task's
\* outcome is its own (its key, or its exception).
C7_FailureIsolated ==
    /\ ~InBatch =>
         /\ \A t \in TaskIds : tasks[t].st = "folded"
         /\ Len(tasks) = SumLen(dispatched)
         /\ stats.total_processed = SumLen(dispatched)
    /\ \A t \in TaskIds :
         tasks[t].st = "done" =>
            /\ tasks[t].attempts >= 1
            /\ tasks[t].raised = "" => tasks[t].result.doc_id = tasks[t].artform.vals.slug

\* one batch of two records: one failed or raised, its sibling succeeded
C7_Witness ==
    /\ pc = "done"
    /\ Len(dispatched) = 1
    /\ Len(dispatched[1]) = 2
    /\ stats.errors = 1
    /\ stats.success = 1

\* --------------------------------------------------------- upload_document
\* the step in which task t writes and returns a successful outcome
Wrote(t) ==
    /\ t \in TaskIds
    /\ tasks[t].st = "set"
    /\ tasks'[t].st = "done"
    /\ tasks'[t].result.success

KeyOf(t) == tasks[t].artform.vals.slug

\* C8: an upload to a key that held a document when the upload checked it
\* writes the record's touched fields and updated_at, and leaves every other
\* stored field as it was.
C8_Step ==
    \A t \in TaskIds :
        (Wrote(t) /\ ~tasks[t].is_new /\ KeyOf(t) \in DOMAIN store) =>
            LET old     == store[KeyOf(t)]
                new     == store'[KeyOf(t)]
                touched == tasks[t].artform.touched
            IN  /\ DOMAIN new = DOMAIN old \cup touched \cup {"updated_at"}
                /\ \A f \in touched : new[f] = tasks[t].artform.vals[f]
                /\ \A f \in DOMAIN old \ (touched \cup {"updated_at"}) : new[f] = old[f]

C8_PartialUpdate == [][C8_Step]_vars

\* key "a" uploaded with {name: X}, then with {artist_count: 5}: both stored
C8_Witness ==
    /\ Len(tasks) = 2
    /\ tasks[1].artform = RecAName /\ tasks[1].st = "done" /\ tasks[1].result.success
    /\ tasks[2].artform = RecACount /\ tasks[2].st = "done" /\ tasks[2].result.success
    /\ ~tasks[2].is_new
    /\ <<"a">> \in DOMAIN store
    /\ {"name", "artist_count"} \subseteq DOMAIN store[<<"a">>]
    /\ store[<<"a">>]["name"] = "X"
    /\ store[<<"a">>]["artist_count"] = 5

\* C9: uploading the same record twice in sequence (one worker thread: the
\* second upload starts when the first has returned): the second upload
\* changes no stored field value (updated_at, the time of the last write,
\* apart), adds and removes no field, and returns is_new_document == false.
C9_Step ==
    \A t \in TaskIds :
        (/\ Wrote(t)
         /\ max_workers = 1
         /\ \E u \in TaskIds :
              /\ u < t
              /\ tasks[u].artform = tasks[t].artform
              /\ tasks[u].st = "done"
              /\ tasks[u].result.success) =>
            /\ KeyOf(t) \in DOMAIN store
            /\ LET old == store[KeyOf(t)]
                   new == store'[KeyOf(t)]
               IN  /\ DOMAIN new = DOMAIN old
                   /\ \A f \in DOMAIN old \ {"updated_at"} : new[f] = old[f]
            /\ ~tasks'[t].result.is_new_document

C9_Idempotent == [][C9_Step]_vars

\* the same record uploaded twice in sequence, both uploads successful
C9_Witness ==
    /\ max_workers = 1
    /\ Len(tasks) = 2
    /\ tasks[1].artform = tasks[2].artform
    /\ tasks[1].st = "done" /\ tasks[1].result.success /\ tasks[1].result.is_new_document
    /\ tasks[2].st = "done" /\ tasks[2].result.success /\ ~tasks[2].result.is_new_document

\* C10: when the store fails with a transient error exactly K times, K below
\* the attempt ceiling, and then succeeds, upload_document returns a
\* successful outcome after exactly K+1 attempts.
C10_RetryUntilSuccess ==
    \A t \in TaskIds :
        (/\ tasks[t].st = "done"
         /\ tasks[t].plan.exc \in RetryTypes
         /\ tasks[t].plan.k < StopAfterAttempt) =>
            /\ tasks[t].raised = ""
            /\ tasks[t].result.success
            /\ tasks[t].attempts = tasks[t].plan.k + 1

\* C11: when the store fails with a transient error on every attempt,
\* upload_document makes exactly as many attempts as the attempt ceiling and
\* then returns a failed outcome instead of raising.
C11_RetryUntilCeiling ==
    \A t \in TaskIds :
        (/\ tasks[t].st = "done"
         /\ tasks[t].plan.exc \in RetryTypes
         /\ tasks[t].plan.k >= StopAfterAttempt) =>
            /\ tasks[t].attempts = StopAfterAttempt
            /\ tasks[t].raised = ""
            /\ ~tasks[t].result.success

\* C12: when the store fails with an error that is not transient,
\* upload_document makes exactly one attempt and returns a failed outcome.
C12_NonTransientOnce ==
    \A t \in TaskIds :
        (tasks[t].st = "done" /\ tasks[t].plan.exc = "ValueError") =>
            /\ tasks[t].attempts = 1
            /\ tasks[t].raised = ""
            /\ ~tasks[t].result.success
            /\ tasks[t].faults = tasks[t].plan.k - 1

\* an upload has ended on a ValueError of the store that would have gone
\* away on a second attempt
C12_Witness ==
    \E t \in TaskIds :
        /\ tasks[t].st = "done"
        /\ tasks[t].plan = [exc |-> "ValueError", k |-> 1]
        /\ tasks[t].attempts = 1
        /\ ~tasks[t].result.success

\* C13: for every store error raised by the existence check or by the merge
\* write, upload_document does not raise: it returns a ProcessResult with
\* success == false, the record's key as doc_id and a non-empty error_message.
C13_ErrorBecomesOutcome ==
    \A t \in TaskIds :
        (tasks[t].st = "done" /\ tasks[t].plan.exc \in StoreErrors) =>
            /\ tasks[t].raised = ""
            /\ ~tasks[t].result.success
            /\ tasks[t].result.doc_id = tasks[t].artform.vals.slug
            /\ tasks[t].result.error_message # ""

\* the merge write of an upload failed after its existence check had found
\* no document, while the other upload failed on a different error
C13_Witness ==
    \E t, u \in TaskIds :
        /\ tasks[t].st = "done" /\ tasks[t].plan.exc = "GoogleCloudError"
        /\ tasks[t].is_new
        /\ ~tasks[t].result.success
        /\ tasks[u].st = "done" /\ tasks[u].plan.exc = "ValueError"
        /\ ~tasks[u].result.success

\* ------------------------------------------------ the dispatcher's counters
\* the orchestrating thread is in the except branch of the as_completed loop
InExcept == pc \in {"exc_lock", "exc_err", "exc_total"}

\* C14: when an upload task raises instead of returning an outcome, the
\* dispatcher adds exactly one to errors and exactly one to total_processed
\* for that record, changes no other counter, and goes back to the
\* as_completed loop with the other tasks of the batch untouched.
C14_RaisedHandled ==
    InExcept =>
        /\ cur \in TasksOf(batch_no)
        /\ tasks[cur].st = "done"
        /\ tasks[cur].raised # ""

C14_Step ==
    /\ (pc = "drain" /\ pc' \notin {"drain", "sleep", "final"}) =>
          /\ stats' = stats
          /\ pc' = IF tasks[cur'].raised # "" THEN "exc_lock" ELSE "upd_lock"
    /\ pc = "exc_lock" => (stats' = stats /\ pc' \in {"exc_lock", "exc_err"})
    /\ pc = "exc_err" =>
          \/ pc' = pc /\ stats' = stats
          \/ /\ pc' = "exc_total"
             /\ stats' = [stats EXCEPT !.errors = stats.errors + 1]
    /\ pc = "exc_total" =>
          \/ pc' = pc /\ stats' = stats
          \/ /\ pc' = "drain"
             /\ stats' = [stats EXCEPT !.total_processed = stats.total_processed + 1]
             /\ tasks'[cur].st = "folded"
             /\ \A u \in TaskIds \ {cur} : tasks'[u] = tasks[u]

C14_RaisedCounted == []C14_RaisedHandled /\ [][C14_Step]_vars

\* in one batch a task that raised and a task that succeeded have both been
\* handled: one error, one success, two processed
C14_Witness ==
    /\ pc = "drain"
    /\ \E t, u \in TasksOf(batch_no) :
         /\ tasks[t].st = "folded" /\ tasks[t].raised # ""
         /\ tasks[u].st = "folded" /\ tasks[u].result.success
    /\ stats.errors = 1
    /\ stats.success = 1
    /\ stats.total_processed = 2

\* the statements of upload_artforms and _process_batch inside a
\* `with self.stats_lock:` block
InLockedBlock == pc \in {"skip_inc", "upd_cat", "upd_new", "upd_total",
                         "exc_err", "exc_total"}

\* C15: every change of a statistics counter happens while stats_lock is
\* held; the lock is held exactly inside the with blocks, and from the moment
\* it is taken for one outcome until it is released the outcome being folded
\* stays the same one.
C15_LockedBlocks == (stats_lock # "none") <=> InLockedBlock

C15_Step ==
    /\ stats' # stats => stats_lock = "main"
    /\ (stats_lock = "main" /\ stats_lock' = "main") => cur' = cur
    /\ (stats_lock = "none" /\ stats_lock' = "main") => stats' = stats

C15_StatsUnderLock == []C15_LockedBlocks /\ [][C15_Step]_vars

\* an outcome is being folded under the lock while another finished upload
\* of the batch waits for its turn
C15_Witness ==
    /\ stats_lock = "main"
    /\ pc = "upd_new"
    /\ \E u \in TasksOf(batch_no) : u # cur /\ tasks[u].st = "done"

\* C16: for a source of N valid records and a store that never fails, a
\* completed run ends with success == N, errors == 0 and
\* total_processed == N, and these are the statistics it reports.
C16_AllSucceed ==
    (pc = "done" /\ InvalidIdx = {} /\ store_faults = 0) =>
        /\ stats.success = Len(source)
        /\ stats.errors = 0
        /\ stats.total_processed = Len(source)
        /\ stats.skipped = 0
        /\ summary = <<stats>>

\* three valid records with batch size two and no fault: batches of two and
\* one, three successes
C16_Witness ==
    /\ pc = "done"
    /\ Len(source) = 3
    /\ InvalidIdx = {}
    /\ store_faults = 0
    /\ batch_size = 2
    /\ Len(dispatched) = 2
    /\ stats.success = 3

\* ------------------------------------------------------------ entry points
\* C17: the entry point exits with code 1 if and only if the final
\* statistics have errors > 0 or an exception escaped the run (in which case
\* no final summary was produced); otherwise it exits with code 0.
C17_ExitState ==
    /\ pc = "exit0" => (stats.errors = 0 /\ summary = <<stats>>)
    /\ pc = "exit1" => (stats.errors > 0 \/ summary = <<>>)

C17_Step ==
    /\ pc = "done" => pc' = (IF stats.errors > 0 THEN "exit1" ELSE "exit0")
    /\ pc = "raised" => pc' = "exit1"
    /\ pc \in {"exit0", "exit1"} => pc' = pc

C17_ExitCode == []C17_ExitState /\ [][C17_Step]_vars

\* a run that completed with one failed and one successful upload exits with 1
C17_Witness ==
    /\ pc = "exit1"
    /\ summary = <<stats>>
    /\ stats.errors = 1
    /\ stats.success = 1

\* C19: when iterating the record source raises, upload_artforms propagates
\* the error to its caller without a final summary, and the counters keep
\* what the rows read and the batches processed so far have added to them.
C19_RaisedState ==
    pc = "raised" =>
        /\ summary = <<>>
        /\ stats.total_processed = SumLen(dispatched)
        /\ stats.skipped = Cardinality({i \in InvalidIdx : i < pos})
        /\ stats.success + stats.errors = stats.total_processed

C19_Step ==
    /\ (pc = "iter" /\ pc' = "raised") =>
          (stats' = stats /\ store' = store /\ summary' = summary)
    /\ pc = "raised" => (pc' = "exit1" /\ stats' = stats /\ summary' = summary)

C19_SourceError == []C19_RaisedState /\ [][C19_Step]_vars

\* the source raised after a full batch had been processed and with rows
\* still unread
C19_Witness ==
    /\ pc = "raised"
    /\ pos <= Len(source)
    /\ Len(dispatched) >= 1
    /\ stats.total_processed = 2

\* C18: the JSON entry point exits with a non-zero code whenever a file or a
\* product failed while uploading.
C18_JsonExitSignalsErrors ==
    (json_pc \in {"exit0", "exit1"} /\ errors > 0) => json_pc = "exit1"

\* ----------------------------------------------------------------- is_valid
\* the slug has a character that is not whitespace
HasVisibleChar(s) == \E i \in 1..Len(s) : s[i] \notin Whitespace

\* C20: for every record, is_valid() is true if and only if the slug is
\* non-empty after trimming whitespace, that is, if and only if it has a
\* character that is not whitespace; and the run skips the row exactly when
\* is_valid() is false.
C20_ValidIffTrimmedNonEmpty ==
    /\ \A i \in 1..Len(source) :
         ~source[i].is_none =>
            (is_valid(source[i].artform) <=> HasVisibleChar(source[i].artform.vals.slug))
    /\ \A t \in TaskIds : HasVisibleChar(tasks[t].artform.vals.slug)
    /\ pc = "done" =>
         stats.skipped =
            Cardinality({i \in 1..Len(source) :
                           ~HasVisibleChar(source[i].artform.vals.slug)})

\* a record whose slug is a letter with whitespace before or after it has
\* been uploaded
C20_Witness ==
    /\ pc = "done"
    /\ source[1].artform.vals.slug \in {<<" ", "a">>, <<"a", "\t">>}
    /\ Len(tasks) = 1
    /\ stats.success = 1
    /\ stats.skipped = 0

\* ------------------------------------------------------ concurrent uploads
\* C21: under any interleaving of the upload_document calls of a run, at most
\* one successful outcome per key reports is_new_document == true, and an
\* upload stamps created_at only when the key holds no document at the
\* moment of its write.
C21_CreatedOnce ==
    /\ \A t, u \in TaskIds :
         (/\ tasks[t].st = "done" /\ tasks[t].result.success
          /\ tasks[u].st = "done" /\ tasks[u].result.success
          /\ tasks[t].result.is_new_document
          /\ tasks[u].result.is_new_document
          /\ KeyOf(t) = KeyOf(u)) => t = u
    /\ \A t \in TaskIds :
         (tasks[t].st = "set" /\ tasks[t].is_new) => ~Exists(KeyOf(t))

\* ------------------------------------------------------------- batch delay
\* the batches (by number) that were followed by time.sleep
Delayed == {delays[i] : i \in 1..Len(delays)}

\* C22: in a completed run the batch delay has followed a batch exactly when
\* that batch is full and is not the final batch of the run.
C22_DelayBetweenBatchesOnly ==
    pc = "done" =>
        \A k \in 1..Len(dispatched) :
            k \in Delayed <=>
                (Len(dispatched[k]) = batch_size /\ k < Len(dispatched))

\* ------------------------------------------------------------------- order
\* the valid rows among the first i rows of the source, in source order
RECURSIVE ValidItems(_)
ValidItems(i) ==
    IF i = 0
    THEN <<>>
    ELSE IF i \in ValidIdx
         THEN Append(ValidItems(i - 1), <<RowNum(i), source[i].artform>>)
         ELSE ValidItems(i - 1)

RECURSIVE Concat(_)
Concat(bs) == IF bs = <<>> THEN <<>> ELSE Head(bs) \o Concat(Tail(bs))

IsPrefix(p, q) == Len(p) <= Len(q) /\ p = SubSeq(q, 1, Len(p))

\* C23: the concatenation of the dispatched batches, in dispatch order, is at
\* every moment a prefix of the sequence of valid rows in source order, and
\* in a completed run it is that whole sequence.
C23_OrderPreserved ==
    /\ IsPrefix(Concat(dispatched), ValidItems(Len(source)))
    /\ pc = "done" => Concat(dispatched) = ValidItems(Len(source))

\* three valid rows, not all the same record, dispatched as two batches
C23_Witness ==
    /\ pc = "done"
    /\ Len(dispatched) = 2
    /\ Len(Concat(dispatched)) = 3
    /\ source[1].artform # source[2].artform
    /\ Concat(dispatched)[1][2] = source[1].artform
    /\ Concat(dispatched)[2][2] = source[2].artform

\* ------------------------------------------------------------ finalization
\* C24: once the run has reported its final summary, the statistics stay
\* what the summary reported: every upload task has been folded, nobody
\* holds stats_lock and the orchestrating thread has left the pipeline.
C24_NoMutationAfterSummary ==
    summary # <<>> =>
        /\ summary = <<stats>>
        /\ \A t \in TaskIds : tasks[t].st = "folded"
        /\ stats_lock = "none"
        /\ pc \in {"done", "exit0", "exit1"}

\* the caller has the statistics of a run of two batches and three uploads
C24_Witness ==
    /\ pc = "exit0"
    /\ summary = <<stats>>
    /\ batch_no = 2
    /\ stats.total_processed = 3

\* ------------------------------------------------------------- lock scope
\* the orchestrating thread is about to enter a `with self.stats_lock:` block
AtAcquire == pc \in {"skip_lock", "upd_lock", "exc_lock"}

\* C25: stats_lock is held by nobody while the orchestrating thread sleeps
\* between batches or waits for a future, and the worker threads, which do
\* the store I/O, never hold it (its only holder is the orchestrating
\* thread); so an acquisition never blocks and a holder can always go on to
\* the release: no state is a deadlock on stats_lock.
C25_NoLockWhileWaiting ==
    /\ pc \in {"sleep", "drain", "iter", "batch", "submit"} => stats_lock = "none"
    /\ stats_lock \in {"none", "main"}
    /\ AtAcquire =>
         /\ stats_lock = "none"
         /\ ENABLED (SkipAcquire \/ UpdateAcquire \/ ExceptAcquire)
    /\ stats_lock # "none" =>
         ENABLED (SkipCount \/ UpdateCategory \/ UpdateNewOrUpdated
                    \/ UpdateTotal \/ ExceptErrors \/ ExceptTotal)

\* the orchestrating thread has folded one outcome and waits, lock released,
\* for the next future while a worker thread is at its merge write
C25_Witness ==
    /\ pc = "drain"
    /\ stats_lock = "none"
    /\ \E t, u \in TasksOf(batch_no) :
         tasks[t].st = "folded" /\ tasks[u].st = "set"

\* ------------------------------------------------------------ monotonicity
CounterNames == {"success", "errors", "skipped", "total_processed",
                 "new_documents", "updated_documents"}

\* C27: no step of the pipeline decreases or resets a statistics counter:
\* across every step each counter stays or grows (by one).
C27_Step ==
    \A c \in CounterNames : stats'[c] \in {stats[c], stats[c] + 1}

C27_CountersMonotonic == [][C27_Step]_vars

\* a completed run in which skipped, success, new_documents and
\* updated_documents have all grown, over two batches
C27_Witness ==
    /\ pc = "done"
    /\ batch_no = 2
    /\ stats.skipped = 1
    /\ stats.success = 2
    /\ stats.new_documents = 1
    /\ stats.updated_documents = 1

\* ----------------------------------------------------------- derived rates
\* C28: the derived rates never divide by zero: success_rate is 0 whenever
\* total_processed == 0, rate_per_second is 0 whenever the elapsed duration
\* is 0, and neither raises ZeroDivisionError in any state of the statistics.
C28_NoDivisionByZero ==
    /\ rates.success_rate.value.kind # "ZeroDivisionError"
    /\ rates.rate_per_second.value.kind # "ZeroDivisionError"
    /\ (rates.success_rate.value.kind # "unread" /\ stats.total_processed = 0) =>
          rates.success_rate.value = Zero
    /\ (rates.rate_per_second.value.kind # "unread"
          /\ rates.rate_per_second.duration = 0) =>
          rates.rate_per_second.value = Zero

\* both rates have been read from statistics with nothing processed, the
\* rate per second before the clock moved
C28_Witness ==
    /\ stats.total_processed = 0
    /\ rates.success_rate.value = Zero
    /\ rates.rate_per_second.value = Zero
    /\ rates.rate_per_second.duration = 0
    /\ time_now > start_time

\* ------------------------------------------------- the JSON product pipeline
Nameless == {i \in 1..Len(source) : source[i][2].name = ""}

Unreadable == {i \in 1..Len(json_files) : ~json_files[i].loads}

\* C26: in the JSON product pipeline a product with a missing or empty name
\* is counted as skipped, never reaches the store write, and adds nothing to
\* errors or total_processed.
C26_NamelessSkipped ==
    /\ \A k \in DOMAIN store : k[2] # ""
    /\ pc = "p_done" =>
         /\ stats.skipped = Cardinality(Unreadable) + Cardinality(Nameless)
         /\ stats.total_processed = Len(source) - Cardinality(Nameless)
         /\ stats.errors =
              Cardinality({i \in 1..Len(source) :
                             source[i][2].name # "" /\ source[i][2].fails})

\* ---------------------------------------------------------------- outcomes
\* C29: a ProcessResult is immutable after upload_document has created it:
\* from the moment a task has returned its outcome, no step changes any
\* attribute of that outcome, before or while it is folded.
C29_Step ==
    \A t \in TaskIds :
        (tasks[t].st = "done" /\ tasks[t].raised = "") =>
            tasks'[t].result = tasks[t].result

C29_OutcomeImmutable == [][C29_Step]_vars

\* C30: for every successful upload, the outcome's fields_updated is the set
\* of field names written to the store for that record (its touched fields).
C30_FieldsUpdatedReported ==
    \A t \in TaskIds :
        (tasks[t].st = "done" /\ tasks[t].raised = "" /\ tasks[t].result.success) =>
            tasks[t].result.fields_updated = tasks[t].artform.touched

\* -------------------------------------------------------- to_firestore_dict
\* the data fields of the record that are touched (names without underscore)
TouchedPublic(rec) == rec.touched \cap FieldNames

\* C31: to_firestore_dict returns exactly the touched, non-private fields
\* with their current values when the touched set is not empty; when it is
\* empty it returns every field of the record (the dataclass fields, the
\* empty touched set among them) with its current value, so that the upload
\* of such a record writes every attribute, at its default value unless the
\* constructor was given another, over what the document held.
C31_Returned ==
    \A t \in TaskIds :
        LET rec == tasks[t].artform
            d   == to_firestore_dict(rec)
        IN  IF rec.touched # {}
            THEN /\ DOMAIN d = TouchedPublic(rec)
                 /\ \A f \in TouchedPublic(rec) : d[f] = rec.vals[f]
            ELSE /\ DOMAIN d = FieldNames \cup {"_fields_to_update"}
                 /\ \A f \in FieldNames : d[f] = rec.vals[f]
                 /\ d["_fields_to_update"] = {}

C31_Step ==
    \A t \in TaskIds :
        (Wrote(t) /\ tasks[t].artform.touched = {}) =>
            LET new == store'[KeyOf(t)] IN
            /\ FieldNames \subseteq DOMAIN new
            /\ new["slug"] = KeyOf(t)
            /\ \A f \in FieldNames \ {"slug"} : new[f] = Defaults[f]

C31_FirestoreDict == []C31_Returned /\ [][C31_Step]_vars

\* a record made with its slug and nothing touched has been uploaded after
\* a record that had stored a name under the same key: the name is back at
\* its default and the touched set itself is in the document
C31_Witness ==
    /\ Len(tasks) = 2
    /\ tasks[1].st = "done" /\ tasks[1].result.success
    /\ tasks[2].st = "done" /\ tasks[2].result.success
    /\ tasks[2].artform.touched = {}
    /\ ~tasks[2].is_new
    /\ store[<<"a">>]["name"] = ""
    /\ store[<<"a">>]["artist_count"] = 0
    /\ "_fields_to_update" \in DOMAIN store[<<"a">>]

\* ------------------------------------------------------------ batch_upload
\* C32: batch_upload is all-or-nothing in its results: it returns exactly one
\* result per input record, in input order, all with the same success flag;
\* when the commit succeeds every result has is_new_document == true and
\* every document has created_at stamped with the time of the commit,
\* whether or not the key held a document before; when the commit raises
\* every result is a failure and nothing is written.
C32_AllOrNothing ==
    batch_pc = "returned" =>
        /\ Len(results) = Len(artforms)
        /\ \A i \in 1..Len(results) : results[i].doc_id = artforms[i].vals.slug
        /\ \A i, j \in 1..Len(results) : results[i].success = results[j].success
        /\ \A i \in 1..Len(results) : results[i].success = ~commit_raises
        /\ ~commit_raises =>
             \A i \in 1..Len(results) :
                 /\ results[i].is_new_document
                 /\ results[i].doc_id \in DOMAIN store
                 /\ store[results[i].doc_id]["created_at"] = clock - 1
                 /\ store[results[i].doc_id]["updated_at"] = clock - 1
        /\ commit_raises =>
             /\ \A i \in 1..Len(results) :
                    ~results[i].is_new_document /\ results[i].error_message # ""
             /\ \A k \in DOMAIN store : store[k]["updated_at"] = 0

\* a batch for the keys "a" and "b" has been committed over a collection
\* that held a document for "a": both results say new, and the old document
\* kept its untouched field but has a new created_at
C32_Witness ==
    /\ batch_pc = "returned"
    /\ ~commit_raises
    /\ Len(results) >= 2
    /\ results[1].doc_id = <<"a">> /\ results[1].is_new_document
    /\ results[2].doc_id = <<"b">> /\ results[2].is_new_document
    /\ "category" \in DOMAIN store[<<"a">>]
    /\ store[<<"a">>]["created_at"] = 1

\* ------------------------------------------------------- new and updated
\* C33: in the CSV uploaders, after every completed outcome fold (stats_lock
\* free again) new_documents + updated_documents == success; within a fold
\* success is ahead by at most the outcome being folded; and each successful
\* outcome adds one to exactly one of new_documents and updated_documents,
\* the one its is_new_document flag names, while no other step changes
\* either.
C33_Balanced ==
    /\ stats_lock = "none" =>
          stats.new_documents + stats.updated_documents = stats.success
    /\ stats.success - (stats.new_documents + stats.updated_documents) \in {0, 1}

C33_Step ==
    IF pc = "upd_new" /\ pc' = "upd_total"
    THEN /\ tasks[cur].result.success
         /\ IF tasks[cur].result.is_new_document
            THEN /\ stats'.new_documents = stats.new_documents + 1
                 /\ stats'.updated_documents = stats.updated_documents
            ELSE /\ stats'.new_documents = stats.new_documents
                 /\ stats'.updated_documents = stats.updated_documents + 1
         /\ stats'.success = stats.success
    ELSE /\ stats'.new_documents = stats.new_documents
         /\ stats'.updated_documents = stats.updated_documents

C33_NewPlusUpdated == []C33_Balanced /\ [][C33_Step]_vars

\* between two folds: a created document, an updated one and a failed
\* upload have been folded so far
C33_Witness ==
    /\ pc = "drain"
    /\ stats_lock = "none"
    /\ stats.new_documents = 1
    /\ stats.updated_documents = 1
    /\ stats.success = 2
    /\ stats.errors = 1

\* C34: in the JSON product pipeline, the final summary of every completed
\* run has new_documents + updated_documents == success.
C34_ProductNewPlusUpdated ==
    pc = "p_done" =>
        /\ summary = <<stats>>
        /\ summary[1].new_documents + summary[1].updated_documents
              = summary[1].success

\* ------------------------------------------------------- who owns the stats
\* a step of a worker thread: a task that was queued or uploading moves on
WorkerStep ==
    \E t \in TaskIds :
        /\ tasks[t].st \in {"queued", "get", "set"}
        /\ tasks'[t].st # tasks[t].st

\* C35: every change of a statistics counter is a step of the orchestrating
\* thread (in its source loop or its as_completed loop, inside a with block
\* of stats_lock); a step of a worker thread executing an upload changes
\* neither the statistics nor the lock, and no step adds to the counters on
\* behalf of two outcomes at once: the counters move one increment per step,
\* for the one outcome (or skipped row) the orchestrating thread is at.
C35_Step ==
    /\ stats' # stats =>
          /\ pc \in {"skip_inc", "upd_cat", "upd_new", "upd_total",
                      "exc_err", "exc_total"}
          /\ pc' # pc
          /\ stats_lock = "main"
          /\ ~WorkerStep
          /\ Cardinality({c \in CounterNames : stats'[c] # stats[c]}) = 1
          /\ cur' = cur
    /\ WorkerStep =>
          /\ stats' = stats
          /\ stats_lock' = stats_lock
          /\ pc' = pc
          /\ cur' = cur

C35_SingleWriter == [][C35_Step]_vars

\* the orchestrating thread is adding an outcome to the counters while a
\* worker thread is inside upload_document for another record of the batch
C35_Witness ==
    /\ pc = "upd_cat"
    /\ stats_lock = "main"
    /\ \E u \in TasksOf(batch_no) : u # cur /\ tasks[u].st = "get"

\* ------------------------------------------------------------- termination
\* every valid row has an upload task that has been folded
AllValidFolded ==
    \A i \in ValidIdx :
        \E t \in TaskIds : tasks[t].row = RowNum(i) /\ tasks[t].st = "folded"

\* C36: for every finite source and every store in which each upload
\* attempt returns or raises, a run of upload_artforms eventually reaches the
\* final summary, with every valid record uploaded and folded and counted in
\* the summary: the run terminates and no batch waits forever.
C36_Terminates ==
    <>(/\ summary # <<>>
       /\ AllValidFolded
       /\ summary[1].total_processed = Cardinality(ValidIdx)
       /\ summary[1].skipped = Cardinality(InvalidIdx))

\* a run that went through two batches, a failed upload and a raised one
\* has reported its summary
C36_Witness ==
    /\ summary # <<>>
    /\ batch_no = 2
    /\ AllValidFolded
    /\ summary[1].errors = 2

\* ------------------------------------------------- records left in a batch
\* the run has ended on an error of the record source
SourceFailed == pc = "raised" \/ (pc = "exit1" /\ summary = <<>>)

\* the rows of the records buffered in current_batch
Buffered == {current_batch[j][1] : j \in 1..Len(current_batch)}

\* C37: when the record source raises in the middle of the iteration, the
\* valid records buffered in the current, not yet full batch are never
\* uploaded (they have no upload task, then or later, and the store is not
\* touched again) and are counted in no counter: the counters account for
\* the rows read so far except the buffered ones.
C37_BufferedDropped ==
    SourceFailed =>
        /\ Len(current_batch) < batch_size
        /\ \A t \in TaskIds : tasks[t].row \notin Buffered
        /\ \A k \in 1..Len(dispatched) :
             \A j \in 1..Len(dispatched[k]) : dispatched[k][j][1] \notin Buffered
        /\ stats.total_processed = Len(tasks)
        /\ stats.success + stats.errors = stats.total_processed
        /\ stats.total_processed + stats.skipped + Len(current_batch) = pos - 1

C37_Step ==
    SourceFailed =>
        /\ tasks' = tasks
        /\ store' = store
        /\ stats' = stats
        /\ current_batch' = current_batch

C37_BufferedNeverUploaded == []C37_BufferedDropped /\ [][C37_Step]_vars

\* the source raised with rows still unread, after a skipped row and with
\* one valid record waiting in a batch of size two; the entry point exited
C37_Witness ==
    /\ pc = "exit1"
    /\ summary = <<>>
    /\ pos <= Len(source)
    /\ batch_size = 2
    /\ Len(current_batch) = 1
    /\ stats.skipped = 1
    /\ stats.total_processed = 0
    /\ store = <<>>

\* ------------------------------------------------- the two JSON uploaders
\* no product of the folder has a write the store fails
StoreNeverFails ==
    \A i \in 1..Len(json_files) :
        \A j \in 1..Len(json_files[i].products) : ~json_files[i].products[j].fails

\* C38: for the same input folder and a store that never fails, the
\* sequential upload_genai_collections and the threaded upload_top_products
\* leave their collections with the same documents under the same
\* <<slug, product name>> keys, with the same description, size_inches and
\* price_inr.
C38_SameDocuments ==
    (pc = "p_done" /\ json_pc = "exit0" /\ StoreNeverFails) =>
        /\ DOMAIN json_store = DOMAIN store
        /\ \A k \in DOMAIN store :
             \A f \in {"description", "size_inches", "price_inr"} :
                 json_store[k][f] = store[k][f]

====
